---- MODULE Spec2Model ----
(***************************************************************************)
(* Packing engine of minoru-packing-tools: SimplePacking.calculate_packing *)
(* (src/src/core/packing_optimizer.py) over the product and box catalogs   *)
(* (src/src/data/products.py, src/src/data/boxes.py).                      *)
(*                                                                         *)
(* Units.  The source computes in centimetres and kilograms with floats.   *)
(* Every catalog value has at most one decimal, so the model uses exact    *)
(* integers: lengths in 0.1 cm, weights in 0.1 kg, areas and volumes in    *)
(* the derived units.  Ratios (overlap fractions, utilisation) are exact   *)
(* fractions <<numerator, denominator>>.  The 0.01 cm tolerance of the     *)
(* source is EpsNum / EpsDen length units.                                 *)
(***************************************************************************)
EXTENDS Integers, Sequences, FiniteSets, TLC

VARIABLES
    products,        \* ProductMaster.products, in dict insertion order
    boxes,           \* BoxMaster.boxes, in dict insertion order
    pc,              \* position inside calculate_packing
    quantities,      \* the request: quantities.items() as <<size, qty>> pairs
    items,           \* calculate_packing: items (sorted by volume, descending)
    total_weight,    \* calculate_packing: total_weight
    total_volume,    \* calculate_packing: total_volume
    suitable_boxes,  \* calculate_packing: suitable_boxes
    box_idx,         \* index of the box of the current loop iteration
    item_idx,        \* _advanced_3d_packing: index of the item being placed
    packed_items,    \* _advanced_3d_packing: packed_items
    free_positions,  \* _advanced_3d_packing: free_positions
    results,         \* calculate_packing: results
    debug_log,       \* the "packing result: Success/Failed" lines printed
    prev,            \* what the previous call with this request returned
    recommendation,  \* what get_packing_recommendation(results) returned
    shipping_options,\* what calculate_shipping_options(results) returned
    cheapest_option, \* what get_cheapest_option(results) returned
    options,         \* get_enhanced_shipping_options: the add-on switches
    enhanced_options,\* what get_enhanced_shipping_options(results, options) returned
    scored_options,  \* _calculate_recommendation_scores: options, scored in place
    scored,          \* _calculate_recommendation_scores has returned
    score_parts,     \* its locals cost_score .. utilization_score, per option
    option_costs,    \* what _calculate_option_costs(carrier, options) returned
    max_fit,         \* what _calculate_max_fit(box, product) returned
    grid,            \* what the grid attempt of a group in a box returned
    par_items,       \* process_parallel: items
    par_futures,     \* process_parallel: the state of the future of each item
    par_results,     \* process_parallel: results
    par_pc,          \* process_parallel: position of the calling thread
    now,             \* time.time(), in seconds
    rate_limit_store,\* SecurityManager.rate_limit_store
    limit_log,       \* the check_rate_limit calls made: key, time, returned value
    session_store,   \* SecurityManager.session_store
    session_log,     \* the last validate_session call, and the tokens it has ever rejected
    tokens_issued,   \* the tokens generate_session_token has produced, with their times
    session_id,      \* st.session_state: None, or the record with its session_id
    cache,           \* CacheManager.cache
    access_times,    \* CacheManager.access_times
    cache_log        \* the last call on the cache: operation, key, time, returned value

\* the variables of the carrier ranking (multi_carrier.py, shipping_calculator.py)
rankerVars == <<shipping_options, cheapest_option, options, enhanced_options,
                scored_options, scored, score_parts>>

\* the variables of the packing engine (packing_optimizer.py and the catalogs)
engineVars == <<products, boxes, pc, quantities, items, total_weight, total_volume,
                suitable_boxes, box_idx, item_idx, packed_items, free_positions,
                results, debug_log, prev, recommendation>>

\* the variables of the helper functions, of the thread pool, of the security
\* manager and of the cache (main_cloud.py, performance.py, security.py)
helperVars == <<option_costs, max_fit, grid>>
parVars == <<par_items, par_futures, par_results, par_pc>>
limitVars == <<rate_limit_store, limit_log>>
sessionVars == <<session_store, session_log, tokens_issued, session_id>>
cacheVars == <<cache, access_times, cache_log>>
utilVars == <<helperVars, parVars, now, limitVars, sessionVars, cacheVars>>

vars == <<products, boxes, pc, quantities, items, total_weight, total_volume,
          suitable_boxes, box_idx, item_idx, packed_items, free_positions,
          results, debug_log, prev, recommendation, rankerVars, utilVars>>

-----------------------------------------------------------------------------
(* Bounds of the exploration *)

\* largest number of units in one request
MaxUnits == 4

-----------------------------------------------------------------------------
(* Program constants *)

\* wall allowance subtracted from each outer dimension (2 cm)
WallAllowance == 20

\* abs(a - b) < 0.01 cm, as a fraction of the length unit
EpsNum == 1
EpsDen == 10

\* max_weight_per_item = 50.0 kg
MaxWeightPerItem == 500

\* stability_threshold = 0.5
StabilityNum == 1
StabilityDen == 2

\* prev before any call has returned
NoRun == [returned |-> FALSE, results |-> <<>>]

-----------------------------------------------------------------------------
(* Catalogs *)

Product(size, w, d, h, wt) ==
    [size |-> size, width |-> w, depth |-> d, height |-> h, weight |-> wt]

TransportBox(number, w, d, h, mw) ==
    [number |-> number, width |-> w, depth |-> d, height |-> h, max_weight |-> mw]

InitialProducts ==
    << Product("S",      150, 100,  80,  5),
       Product("S_long", 250, 100,  80,  7),
       Product("L",      200, 150, 120, 12),
       Product("L_long", 300, 150, 120, 15),
       Product("LL",     250, 200, 150, 20) >>

InitialBoxes ==
    << TransportBox("No.1",  375, 370, 240, 100),
       TransportBox("No.2",  502, 402, 310, 150),
       TransportBox("No.5",  532, 402, 338, 200),
       TransportBox("No.6 (100)", 502, 402, 508, 250),
       TransportBox("No.15", 575, 402, 340, 250) >>

\* products a caller registers with ProductMaster.add_product
ExtraProducts == { Product("H", 300, 300, 300, 250) }

\* a product a caller registers whose volume equals that of S_long
\* (20 x 10 x 10 cm against 25 x 10 x 8 cm)
TieProducts == { Product("M", 200, 100, 100, 6) }

\* boxes a caller registers with BoxMaster.add_box
ExtraBoxes == { TransportBox("X", 330, 330, 1080, 1000) }

-----------------------------------------------------------------------------
(* Arithmetic helpers *)

Max(a, b) == IF a >= b THEN a ELSE b
Min(a, b) == IF a <= b THEN a ELSE b
Abs(a) == IF a >= 0 THEN a ELSE -a

RECURSIVE GCD(_, _)
GCD(a, b) == IF b = 0 THEN a ELSE GCD(b, a % b)

\* exact fractions <<n, d>> with d > 0, kept in lowest terms
Frac(n, d) == LET g == GCD(Abs(n), d) IN <<n \div g, d \div g>>
FracAdd(p, q) ==
    LET g == GCD(p[2], q[2])
    IN  Frac(p[1] * (q[2] \div g) + q[1] * (p[2] \div g), (p[2] \div g) * q[2])
FracMulInt(p, k) == LET g == GCD(Abs(k), p[2]) IN Frac(p[1] * (k \div g), p[2] \div g)
FracGtInt(p, k) == p[1] > k * p[2]
FracMul(p, q) ==
    LET g1 == GCD(Abs(p[1]), q[2])
        g2 == GCD(Abs(q[1]), p[2])
    IN  <<(p[1] \div g1) * (q[1] \div g2), (p[2] \div g2) * (q[2] \div g1)>>

\* a/b < c/d for a, c >= 0 and b, d > 0, without forming a*d or c*b
RECURSIVE LessFrac(_, _, _, _)
LessFrac(a, b, c, d) ==
    LET qa == a \div b
        qc == c \div d
        ra == a % b
        rc == c % d
    IN  IF qa # qc THEN qa < qc
        ELSE IF rc = 0 THEN FALSE
        ELSE IF ra = 0 THEN TRUE
        ELSE LessFrac(d, rc, b, ra)

\* list.sort / sorted: the stable sort of s, where before[i][j] tells that
\* the key of s[i] is strictly smaller than the key of s[j]
StableSort(s, before) ==
    LET n == Len(s)
        pos(i) == 1 + Cardinality({ j \in 1..n :
                         \/ before[j][i]
                         \/ (~before[i][j] /\ j < i) })
    IN  [ k \in 1..n |-> s[CHOOSE i \in 1..n : pos(i) = k] ]

RECURSIVE SumSeq(_)
SumSeq(s) == IF s = <<>> THEN 0 ELSE Head(s) + SumSeq(Tail(s))

\* the sequence of n copies of e
Repeat(e, n) == [ k \in 1..n |-> e ]

RECURSIVE Flatten(_)
Flatten(ss) == IF ss = <<>> THEN <<>> ELSE Head(ss) \o Flatten(Tail(ss))

-----------------------------------------------------------------------------
(* src/src/data/products.py and src/src/data/boxes.py *)

\* Product.volume
ProductVolume(p) == p.width * p.depth * p.height

\* TransportBox.volume: the outer volume
BoxVolume(b) == b.width * b.depth * b.height

\* TransportBox.inner_dimensions
InnerDimensions(b) ==
    << Max(0, b.width - WallAllowance),
       Max(0, b.depth - WallAllowance),
       Max(0, b.height - WallAllowance) >>

\* TransportBox.inner_volume
InnerVolume(b) ==
    LET inner == InnerDimensions(b) IN inner[1] * inner[2] * inner[3]

\* can_fit_weight that lets every load through
CanFitWeightUnchecked(b, weight) == weight >= 0

\* TransportBox.can_fit_weight
CanFitWeight(b, weight) == weight <= b.max_weight

\* can_fit_volume measured against the outer volume of the box
CanFitVolumeOuter(b, volume) == volume <= BoxVolume(b)

\* TransportBox.can_fit_volume
CanFitVolume(b, volume) == volume <= InnerVolume(b)

\* ProductMaster.get_product: the product registered under a size label,
\* None for a label that is not registered (dict.get)
GetProduct(size) ==
    IF \E k \in 1..Len(products) : products[k].size = size
    THEN products[CHOOSE k \in 1..Len(products) : products[k].size = size]
    ELSE [none |-> TRUE]

\* find_suitable_boxes that falls back to the largest box when none qualifies
FindSuitableBoxesOrLargest(required_volume, required_weight) ==
    LET fits(b) == CanFitVolume(b, required_volume) /\ CanFitWeight(b, required_weight)
        suitable == SelectSeq(boxes, fits)
        by_volume(bs) == StableSort(bs, [ i \in 1..Len(bs) |-> [ j \in 1..Len(bs) |->
                                            BoxVolume(bs[i]) < BoxVolume(bs[j]) ] ])
    IN  IF suitable = <<>> /\ boxes # <<>>
        THEN << by_volume(boxes)[Len(boxes)] >>
        ELSE by_volume(suitable)

\* BoxMaster.find_suitable_boxes
FindSuitableBoxes(required_volume, required_weight) ==
    LET fits(b) == CanFitVolume(b, required_volume) /\ CanFitWeight(b, required_weight)
        suitable == SelectSeq(boxes, fits)
    IN  StableSort(suitable, [ i \in 1..Len(suitable) |-> [ j \in 1..Len(suitable) |->
                                    BoxVolume(suitable[i]) < BoxVolume(suitable[j]) ] ])

-----------------------------------------------------------------------------
(* src/src/core/packing_optimizer.py: geometry and stability checks *)

PackedItem(product, x, y, z, width, depth, height, rotated) ==
    [product |-> product, x |-> x, y |-> y, z |-> z,
     width |-> width, depth |-> depth, height |-> height, rotated |-> rotated]

\* abs(a - b) < 0.01
WithinEps(a, b) == Abs(a - b) * EpsDen < EpsNum

\* overlap_x = max(0, min(x + width, item.x + item.width) - max(x, item.x))
OverlapX(x, width, item) ==
    Max(0, Min(x + width, item.x + item.width) - Max(x, item.x))

\* overlap_y = max(0, min(y + depth, item.y + item.depth) - max(y, item.y))
OverlapY(y, depth, item) ==
    Max(0, Min(y + depth, item.y + item.depth) - Max(y, item.y))

\* _check_collision with the vertical test made against the bottom of the
\* placed item instead of its top
CheckCollisionBottomOnly(packed, x, y, z, width, depth, height) ==
    \E i \in 1..Len(packed) :
        LET item == packed[i]
        IN  ~( \/ x >= item.x + item.width  \/ x + width <= item.x
               \/ y >= item.y + item.depth  \/ y + depth <= item.y
               \/ z >= item.z               \/ z + height <= item.z )

\* SimplePacking._check_collision
CheckCollision(packed, x, y, z, width, depth, height) ==
    \E i \in 1..Len(packed) :
        LET item == packed[i]
        IN  ~( \/ x >= item.x + item.width  \/ x + width <= item.x
               \/ y >= item.y + item.depth  \/ y + depth <= item.y
               \/ z >= item.z + item.height \/ z + height <= item.z )

\* SimplePacking._calculate_weight_on_item, as an exact fraction of 0.1 kg
RECURSIVE WeightAbove(_, _, _)
WeightAbove(packed, target, k) ==
    IF k > Len(packed) THEN <<0, 1>>
    ELSE LET item == packed[k]
             overlap_x == OverlapX(target.x, target.width, item)
             overlap_y == OverlapY(target.y, target.depth, item)
             above == (item.z - (target.z + target.height)) * EpsDen > -EpsNum
             share == IF above /\ overlap_x > 0 /\ overlap_y > 0
                      THEN FracMulInt(Frac(overlap_x * overlap_y,
                                           item.width * item.depth),
                                      item.product.weight)
                      ELSE <<0, 1>>
         IN  FracAdd(share, WeightAbove(packed, target, k + 1))

CalculateWeightOnItem(packed, target) ==
    FracAdd(<<target.product.weight, 1>>, WeightAbove(packed, target, 1))

\* SimplePacking._check_weight_distribution
CheckWeightDistribution(packed, x, y, z, width, depth, new_weight) ==
    \A i \in 1..Len(packed) :
        LET item == packed[i]
            overlap_x == OverlapX(x, width, item)
            overlap_y == OverlapY(y, depth, item)
            distributed_weight ==
                FracMulInt(Frac(overlap_x * overlap_y, width * depth), new_weight)
            total_weight_on_item ==
                FracAdd(CalculateWeightOnItem(packed, item), distributed_weight)
        IN  (WithinEps(item.z + item.height, z) /\ overlap_x > 0 /\ overlap_y > 0)
                => ~FracGtInt(total_weight_on_item, MaxWeightPerItem)

\* support_area accumulated by SimplePacking._check_stability
RECURSIVE SupportArea(_, _, _, _, _, _, _)
SupportArea(packed, k, x, y, z, width, depth) ==
    IF k > Len(packed) THEN 0
    ELSE LET item == packed[k]
             overlap_area == OverlapX(x, width, item) * OverlapY(y, depth, item)
         IN  (IF WithinEps(item.z + item.height, z) THEN overlap_area ELSE 0)
               + SupportArea(packed, k + 1, x, y, z, width, depth)

\* _check_stability without the 50% support threshold
CheckStabilityNoThreshold(packed, x, y, z, width, depth, height, weight) ==
    IF z = 0 THEN TRUE
    ELSE CheckWeightDistribution(packed, x, y, z, width, depth, weight)

\* SimplePacking._check_stability
CheckStability(packed, x, y, z, width, depth, height, weight) ==
    IF z = 0 THEN TRUE
    ELSE IF ~CheckWeightDistribution(packed, x, y, z, width, depth, weight) THEN FALSE
    ELSE SupportArea(packed, 1, x, y, z, width, depth) * StabilityDen
            >= StabilityNum * width * depth

\* _add_new_positions without the test "pos not in positions"
AddNewPositionsAll(positions, x, y, z, width, depth, height) ==
    LET appended == positions \o << <<x + width, y, z>>, <<x, y + depth, z>>,
                                    <<x, y, z + height>> >>
        less(p, q) == \/ p[3] < q[3]
                      \/ (p[3] = q[3] /\ p[2] < q[2])
                      \/ (p[3] = q[3] /\ p[2] = q[2] /\ p[1] < q[1])
    IN  StableSort(appended, [ i \in 1..Len(appended) |-> [ j \in 1..Len(appended) |->
                                    less(appended[i], appended[j]) ] ])

\* SimplePacking._add_new_positions
AddNewPositions(positions, x, y, z, width, depth, height) ==
    LET new_positions == << <<x + width, y, z>>, <<x, y + depth, z>>, <<x, y, z + height>> >>
        Has(ps, p) == \E i \in 1..Len(ps) : ps[i] = p
        add(ps, p) == IF Has(ps, p) THEN ps ELSE Append(ps, p)
        appended == add(add(add(positions, new_positions[1]), new_positions[2]),
                        new_positions[3])
        less(p, q) == \/ p[3] < q[3]
                      \/ (p[3] = q[3] /\ p[2] < q[2])
                      \/ (p[3] = q[3] /\ p[2] = q[2] /\ p[1] < q[1])
    IN  StableSort(appended, [ i \in 1..Len(appended) |-> [ j \in 1..Len(appended) |->
                                    less(appended[i], appended[j]) ] ])

\* the orientations list of _advanced_3d_packing
Orientations(product) ==
    << <<product.width, product.depth, product.height, FALSE>>,
       <<product.depth, product.width, product.height, TRUE>> >>

\* the placement tests without the height bound z + height <= box_h
AcceptsNoHeightBound(packed, o, pos, box_w, box_d, box_h, weight) ==
    /\ pos[1] + o[1] <= box_w
    /\ pos[2] + o[2] <= box_d
    /\ ~CheckCollision(packed, pos[1], pos[2], pos[3], o[1], o[2], o[3])
    /\ CheckStability(packed, pos[1], pos[2], pos[3], o[1], o[2], o[3], weight)

\* the three nested tests of the placement loop for one orientation and point
Accepts(packed, o, pos, box_w, box_d, box_h, weight) ==
    /\ pos[1] + o[1] <= box_w
    /\ pos[2] + o[2] <= box_d
    /\ pos[3] + o[3] <= box_h
    /\ ~CheckCollision(packed, pos[1], pos[2], pos[3], o[1], o[2], o[3])
    /\ CheckStability(packed, pos[1], pos[2], pos[3], o[1], o[2], o[3], weight)

\* a placement loop with the free positions in the outer loop and the
\* orientations in the inner one
FindPlacementPointFirst(packed, positions, product, box_w, box_d, box_h) ==
    LET os == Orientations(product)
        ok(oi, pi) == Accepts(packed, os[oi], positions[pi], box_w, box_d, box_h,
                              product.weight)
        fits(pi) == ok(1, pi) \/ ok(2, pi)
        first == CHOOSE pi \in 1..Len(positions) :
                        fits(pi) /\ \A pj \in 1..(pi - 1) : ~fits(pj)
    IN  IF \E pi \in 1..Len(positions) : fits(pi)
        THEN <<IF ok(1, first) THEN 1 ELSE 2, first>>
        ELSE <<0, 0>>

\* the (orientation index, position index) the placement loop settles on,
\* or <<0, 0>> when the item is not placed
FindPlacement(packed, positions, product, box_w, box_d, box_h) ==
    LET os == Orientations(product)
        ok(oi, pi) == Accepts(packed, os[oi], positions[pi], box_w, box_d, box_h,
                              product.weight)
        fits(oi) == \E pi \in 1..Len(positions) : ok(oi, pi)
        first(oi) == CHOOSE pi \in 1..Len(positions) :
                        ok(oi, pi) /\ \A pj \in 1..(pi - 1) : ~ok(oi, pj)
    IN  IF fits(1) THEN <<1, first(1)>>
        ELSE IF fits(2) THEN <<2, first(2)>>
        ELSE <<0, 0>>

\* free_positions.pop(pos_idx)
Pop(s, idx) == [ k \in 1..(Len(s) - 1) |-> IF k < idx THEN s[k] ELSE s[k + 1] ]

-----------------------------------------------------------------------------
(* Requests *)

\* the requests explored: one quantity per catalog size, in catalog order,
\* at most MaxUnits units in all
RECURSIVE Counts(_, _)
Counts(n, budget) ==
    IF n = 0 THEN { <<>> }
    ELSE UNION { { Append(c, k) : c \in Counts(n - 1, budget - k) } : k \in 0..budget }

Requests ==
    LET n == Len(products)
    IN  { [ k \in 1..n |-> <<products[k].size, f[k]>> ] : f \in Counts(n, MaxUnits) }

\* the requests a call can be made with in the current state
CallableRequests ==
    IF pc = "idle" THEN Requests
    ELSE IF pc = "done" /\ ~prev.returned THEN { quantities }
    ELSE {}

\* InputValidator.validate_quantities: is_valid of the returned report
ValidSizes == {"S", "S_long", "L", "L_long", "LL"}
MaxQuantity == 1000
MaxTotalItems == 5000
ValidateQuantities(q) ==
    LET total_items == SumSeq([ k \in 1..Len(q) |-> q[k][2] ])
    IN  /\ \A k \in 1..Len(q) :
              /\ q[k][1] \in ValidSizes
              /\ ~(q[k][2] < 0)
              /\ ~(q[k][2] > MaxQuantity)
        /\ total_items # 0
        /\ ~(total_items > MaxTotalItems)

\* a size label no catalog holds
UnknownSize == "XL"

\* the requests validate_quantities reports as invalid: a request of Requests
\* with one quantity replaced by -1, or with an entry for the unknown label,
\* or without any unit, or the empty dict
InvalidRequests ==
    LET negative == { [q EXCEPT ![k] = <<q[k][1], -1>>] : q \in Requests, k \in 1..Len(products) }
        unknown == { Append(q, <<UnknownSize, x>>) : q \in Requests, x \in 0..1 }
    IN  { q \in negative \cup unknown \cup Requests \cup { <<>> } : ~ValidateQuantities(q) }

\* the invalid requests a call can be made with in the current state
CallableInvalidRequests ==
    IF pc = "idle" THEN InvalidRequests
    ELSE IF pc = "done" /\ ~prev.returned THEN { quantities }
    ELSE {}

\* line 54: product.weight on the None that get_product returned for an
\* unknown label with a positive quantity raises AttributeError
RaisesAttributeError(q) ==
    \E k \in 1..Len(q) : q[k][2] > 0 /\ GetProduct(q[k][1]) = [none |-> TRUE]

\* the units of the request with a positive quantity, as calculate_packing
\* appends them to items (before sorting)
RequestedItems(q) ==
    Flatten([ k \in 1..Len(q) |->
                IF q[k][2] > 0
                THEN Repeat([product |-> GetProduct(q[k][1]), size |-> q[k][1]], q[k][2])
                ELSE <<>> ])

\* total_weight of calculate_packing
RequestedWeight(q) ==
    SumSeq([ k \in 1..Len(q) |->
               IF q[k][2] > 0 THEN GetProduct(q[k][1]).weight * q[k][2] ELSE 0 ])

\* total_volume of calculate_packing
RequestedVolume(q) ==
    SumSeq([ k \in 1..Len(q) |->
               IF q[k][2] > 0 THEN ProductVolume(GetProduct(q[k][1])) * q[k][2] ELSE 0 ])

\* the requests a first call can be made with: those of Requests, each also
\* with its entries in the opposite order (a dict keeps the order in which the
\* caller inserted its keys)
OrderedRequests ==
    IF pc = "idle"
    THEN Requests \cup { [ k \in 1..Len(q) |-> q[Len(q) + 1 - k] ] : q \in Requests }
    ELSE {}

\* a descending sort that puts the later of two units of equal volume first
SortByVolumeTiesReversed(its) ==
    StableSort(its, [ i \in 1..Len(its) |-> [ j \in 1..Len(its) |->
                        \/ ProductVolume(its[i].product) > ProductVolume(its[j].product)
                        \/ /\ ProductVolume(its[i].product) = ProductVolume(its[j].product)
                           /\ i > j ] ])

\* sort(key=volume, reverse=True)
SortByVolumeDesc(its) ==
    StableSort(its, [ i \in 1..Len(its) |-> [ j \in 1..Len(its) |->
                        ProductVolume(its[i].product) > ProductVolume(its[j].product) ] ])

\* results.sort(key=utilization_rate, reverse=True)
SortByUtilizationDesc(rs) ==
    StableSort(rs, [ i \in 1..Len(rs) |-> [ j \in 1..Len(rs) |->
                        LessFrac(rs[j].utilization_rate.num, rs[j].utilization_rate.den,
                                 rs[i].utilization_rate.num, rs[i].utilization_rate.den) ] ])

-----------------------------------------------------------------------------
(* Values shared by the callers of the engine *)

\* Python's None
None == [none |-> TRUE]

\* recommendation before get_packing_recommendation is called on the results
NotCalled == [called |-> FALSE]

\* a function that has not returned yet, and one that returned value
NotReturned == [returned |-> FALSE, value |-> <<>>]
Returned(value) == [returned |-> TRUE, value |-> value]

\* the carrier ranking before any of its functions is called
RankerIdle ==
    /\ shipping_options = NotReturned
    /\ cheapest_option = NotReturned
    /\ options = <<>>
    /\ enhanced_options = NotReturned
    /\ scored_options = <<>>
    /\ scored = FALSE
    /\ score_parts = <<>>

\* the helper functions not called, no thread pool running, the clock at 0,
\* and the stores of the security manager and of the cache empty
UtilIdle ==
    /\ option_costs = NotCalled
    /\ max_fit = NotCalled
    /\ grid = NotCalled
    /\ par_items = <<>>
    /\ par_futures = <<>>
    /\ par_results = <<>>
    /\ par_pc = "idle"
    /\ now = 0
    /\ rate_limit_store = <<>>
    /\ limit_log = <<>>
    /\ session_store = <<>>
    /\ session_log = [last |-> None, rejected |-> {}]
    /\ tokens_issued = <<>>
    /\ session_id = None
    /\ cache = <<>>
    /\ access_times = <<>>
    /\ cache_log = <<>>

-----------------------------------------------------------------------------
(* State machine *)

\* SimplePacking(): the stock catalogs, no call made
EngineIdle ==
    /\ products = InitialProducts
    /\ boxes = InitialBoxes
    /\ pc = "idle"
    /\ quantities = <<>>
    /\ items = <<>>
    /\ total_weight = 0
    /\ total_volume = 0
    /\ suitable_boxes = <<>>
    /\ box_idx = 1
    /\ item_idx = 1
    /\ packed_items = <<>>
    /\ free_positions = <<>>
    /\ results = <<>>
    /\ debug_log = <<>>
    /\ prev = NoRun
    /\ recommendation = NotCalled

Init ==
    /\ EngineIdle
    /\ RankerIdle
    /\ UtilIdle

\* ProductMaster.add_product, for a size label not yet in the catalog
AddProduct(p) ==
    /\ pc = "idle"
    /\ \A k \in 1..Len(products) : products[k].size # p.size
    /\ products' = Append(products, p)
    /\ UNCHANGED <<boxes, pc, quantities, items, total_weight, total_volume,
                   suitable_boxes, box_idx, item_idx, packed_items,
                   free_positions, results, debug_log, prev, recommendation>>
    /\ UNCHANGED <<rankerVars, utilVars>>

\* BoxMaster.add_box, for a box number not yet in the catalog
AddBox(b) ==
    /\ pc = "idle"
    /\ \A k \in 1..Len(boxes) : boxes[k].number # b.number
    /\ boxes' = Append(boxes, b)
    /\ UNCHANGED <<products, pc, quantities, items, total_weight, total_volume,
                   suitable_boxes, box_idx, item_idx, packed_items,
                   free_positions, results, debug_log, prev, recommendation>>
    /\ UNCHANGED <<rankerVars, utilVars>>

\* calculate_packing that appends to the results list of the previous call
CalculatePackingKeepingResults(q) ==
    /\ \/ pc = "idle" /\ prev' = NoRun
       \/ /\ pc = "done" /\ ~prev.returned /\ q = quantities
          /\ prev' = [returned |-> TRUE, results |-> results]
    /\ quantities' = q
    /\ total_weight' = RequestedWeight(q)
    /\ total_volume' = RequestedVolume(q)
    /\ items' = SortByVolumeDesc(RequestedItems(q))
    /\ suitable_boxes' = FindSuitableBoxes(RequestedVolume(q), RequestedWeight(q))
    /\ debug_log' = <<>>
    /\ box_idx' = 1
    /\ item_idx' = 1
    /\ packed_items' = <<>>
    /\ free_positions' = <<>>
    /\ pc' = "boxes"
    /\ recommendation' = NotCalled
    /\ UNCHANGED <<products, boxes, results>>
    /\ UNCHANGED <<rankerVars, utilVars>>

\* calculate_packing, lines 44-73: totals, items, candidate boxes.  The call is
\* made on an idle engine with any request, or repeated once with the request
\* of the call that has just returned.  A request with a positive quantity of
\* an unregistered label leaves the function by the AttributeError of line 54;
\* entries with a quantity of 0 or less are skipped by line 52.
CalculatePacking(q) ==
    /\ \/ pc = "idle" /\ prev' = NoRun
       \/ /\ pc = "done" /\ ~prev.returned /\ q = quantities
          /\ prev' = [returned |-> TRUE, results |-> results]
    /\ quantities' = q
    /\ IF RaisesAttributeError(q)
       THEN /\ pc' = "raised"
            /\ UNCHANGED <<total_weight, total_volume, items, suitable_boxes,
                           results, debug_log, box_idx, item_idx, packed_items,
                           free_positions>>
       ELSE /\ total_weight' = RequestedWeight(q)
            /\ total_volume' = RequestedVolume(q)
            /\ items' = SortByVolumeDesc(RequestedItems(q))
            /\ suitable_boxes' = FindSuitableBoxes(RequestedVolume(q), RequestedWeight(q))
            /\ results' = <<>>
            /\ debug_log' = <<>>
            /\ box_idx' = 1
            /\ item_idx' = 1
            /\ packed_items' = <<>>
            /\ free_positions' = <<>>
            /\ pc' = "boxes"
    /\ recommendation' = NotCalled
    /\ UNCHANGED <<products, boxes>>
    /\ UNCHANGED <<rankerVars, utilVars>>

\* _try_pack_items that hands the placement list and the free positions left
\* by the previous candidate to _advanced_3d_packing
TryPackItemsKeepingFrontier ==
    /\ pc = "boxes"
    /\ box_idx <= Len(suitable_boxes)
    /\ LET box == suitable_boxes[box_idx]
           inner_dims == InnerDimensions(box)
           usable_volume == inner_dims[1] * inner_dims[2] * inner_dims[3]
       IN  IF ~CanFitWeight(box, total_weight) \/ total_volume > usable_volume
           THEN /\ debug_log' = Append(debug_log, <<box.number, "Failed">>)
                /\ box_idx' = box_idx + 1
                /\ UNCHANGED <<pc, item_idx, packed_items, free_positions>>
           ELSE /\ pc' = "place"
                /\ item_idx' = 1
                /\ packed_items' = IF box_idx = 1 THEN <<>> ELSE packed_items
                /\ free_positions' = IF box_idx = 1 THEN << <<0, 0, 0>> >> ELSE free_positions
                /\ UNCHANGED <<debug_log, box_idx>>
    /\ UNCHANGED <<products, boxes, quantities, items, total_weight, total_volume,
                   suitable_boxes, results, prev, recommendation>>
    /\ UNCHANGED <<rankerVars, utilVars>>

\* _try_pack_items, lines 86-103: the weight and volume checks of one candidate
\* box; a box that passes enters _advanced_3d_packing with an empty placement
\* list and the origin as the only free position
TryPackItems ==
    /\ pc = "boxes"
    /\ box_idx <= Len(suitable_boxes)
    /\ LET box == suitable_boxes[box_idx]
           inner_dims == InnerDimensions(box)
           usable_volume == inner_dims[1] * inner_dims[2] * inner_dims[3]
       IN  IF ~CanFitWeight(box, total_weight) \/ total_volume > usable_volume
           THEN /\ debug_log' = Append(debug_log, <<box.number, "Failed">>)
                /\ box_idx' = box_idx + 1
                /\ UNCHANGED <<pc, item_idx, packed_items, free_positions>>
           ELSE /\ pc' = "place"
                /\ item_idx' = 1
                /\ packed_items' = <<>>
                /\ free_positions' = << <<0, 0, 0>> >>
                /\ UNCHANGED <<debug_log, box_idx>>
    /\ UNCHANGED <<products, boxes, quantities, items, total_weight, total_volume,
                   suitable_boxes, results, prev, recommendation>>
    /\ UNCHANGED <<rankerVars, utilVars>>

\* an item was skipped instead of ending the attempt: the loop goes on to the
\* next item and the box keeps a partial placement
SkipUnplacedItem(box) ==
    /\ item_idx' = item_idx + 1
    /\ UNCHANGED <<debug_log, box_idx, pc, packed_items, free_positions>>

\* _advanced_3d_packing, lines 182-184: an item that was not placed ends the
\* attempt with [], _try_pack_items returns None (lines 105-106) and
\* calculate_packing moves to the next box without a result (lines 77-79)
ReturnEmpty(box) ==
    /\ debug_log' = Append(debug_log, <<box.number, "Failed">>)
    /\ box_idx' = box_idx + 1
    /\ pc' = "boxes"
    /\ UNCHANGED <<item_idx, packed_items, free_positions>>

\* _advanced_3d_packing, lines 139-184: one iteration of the loop over the
\* sorted items.  The item is placed at the first accepted point of the first
\* orientation that has one; otherwise the function returns [] and
\* _try_pack_items returns None for this box.
PlaceItem ==
    /\ pc = "place"
    /\ item_idx <= Len(items)
    /\ LET box == suitable_boxes[box_idx]
           inner_dims == InnerDimensions(box)
           sorted_items == SortByVolumeDesc(items)
           product == sorted_items[item_idx].product
           found == FindPlacement(packed_items, free_positions, product,
                                  inner_dims[1], inner_dims[2], inner_dims[3])
       IN  IF found[1] = 0
           THEN ReturnEmpty(box)
           ELSE LET o == Orientations(product)[found[1]]
                    pos == free_positions[found[2]]
                IN  /\ packed_items' = Append(packed_items,
                            PackedItem(product, pos[1], pos[2], pos[3],
                                       o[1], o[2], o[3], o[4]))
                    /\ free_positions' = AddNewPositions(Pop(free_positions, found[2]),
                            pos[1], pos[2], pos[3], o[1], o[2], o[3])
                    /\ item_idx' = item_idx + 1
                    /\ UNCHANGED <<debug_log, box_idx, pc>>
    /\ UNCHANGED <<products, boxes, quantities, items, total_weight, total_volume,
                   suitable_boxes, results, prev, recommendation>>
    /\ UNCHANGED <<rankerVars, utilVars>>

\* max((item.z + item.height) for item in packed_positions)
RECURSIVE MaxHeightUsed(_)
MaxHeightUsed(packed) ==
    IF packed = <<>> THEN 0
    ELSE Max(Head(packed).z + Head(packed).height, MaxHeightUsed(Tail(packed)))

\* the used volume summed without the height factor
ActualVolumeNoHeight(packed) ==
    SumSeq([ k \in 1..Len(packed) |-> packed[k].width * packed[k].depth ])

\* sum(item.width * item.depth * item.height for item in packed_positions)
ActualVolume(packed) ==
    SumSeq([ k \in 1..Len(packed) |->
               packed[k].width * packed[k].depth * packed[k].height ])

\* a percentage 100 * num / den, kept as the exact fraction num / den
Percent(num, den) == [num |-> num, den |-> den]

\* _try_pack_items, lines 105-127: the items loop has ended.  An empty
\* placement list gives None; otherwise the PackingResult is built and
\* calculate_packing appends it to results.
BuildResult ==
    /\ pc = "place"
    /\ item_idx > Len(items)
    /\ LET box == suitable_boxes[box_idx]
           inner_dims == InnerDimensions(box)
           usable_volume == inner_dims[1] * inner_dims[2] * inner_dims[3]
           actual_volume == ActualVolume(packed_items)
           max_height_used == MaxHeightUsed(packed_items)
           result == [ box |-> box,
                       items |-> items,
                       packed_items |-> packed_items,
                       total_weight |-> total_weight,
                       total_volume |-> actual_volume,
                       utilization_rate |-> Percent(actual_volume, usable_volume),
                       packing_efficiency |->
                           IF max_height_used > 0
                           THEN Percent(actual_volume,
                                        inner_dims[1] * inner_dims[2] * max_height_used)
                           ELSE Percent(0, 1),
                       is_feasible |-> TRUE ]
       IN  IF packed_items = <<>>
           THEN /\ debug_log' = Append(debug_log, <<box.number, "Failed">>)
                /\ UNCHANGED results
           ELSE /\ debug_log' = Append(debug_log, <<box.number, "Success">>)
                /\ results' = Append(results, result)
    /\ box_idx' = box_idx + 1
    /\ pc' = "boxes"
    /\ UNCHANGED <<products, boxes, quantities, items, total_weight, total_volume,
                   suitable_boxes, item_idx, packed_items, free_positions, prev, recommendation>>
    /\ UNCHANGED <<rankerVars, utilVars>>

\* calculate_packing, lines 81-84: every candidate has been tried; the results
\* are sorted by utilisation, highest first, and returned
ReturnResults ==
    /\ pc = "boxes"
    /\ box_idx > Len(suitable_boxes)
    /\ results' = SortByUtilizationDesc(results)
    /\ pc' = "done"
    /\ UNCHANGED <<products, boxes, quantities, items, total_weight, total_volume,
                   suitable_boxes, box_idx, item_idx, packed_items,
                   free_positions, debug_log, prev, recommendation>>
    /\ UNCHANGED <<rankerVars, utilVars>>

-----------------------------------------------------------------------------
(* src/src/core/packing_optimizer.py: get_packing_recommendation *)

\* the thresholds of get_packing_recommendation, in percent
EfficiencyThreshold == 60
UtilizationThreshold == 50

\* percentage p >= k
AtLeast(p, k) == ~LessFrac(p.num, p.den, k, 100)

\* lines 316-319: the first result with packing_efficiency >= 60, or None
RECURSIVE FirstEfficient(_)
FirstEfficient(rs) ==
    IF rs = <<>> THEN None
    ELSE IF AtLeast(Head(rs).packing_efficiency, EfficiencyThreshold) THEN Head(rs)
    ELSE FirstEfficient(Tail(rs))

\* lines 321-324: the first result with utilization_rate >= 50, or None
RECURSIVE FirstUtilized(_)
FirstUtilized(rs) ==
    IF rs = <<>> THEN None
    ELSE IF AtLeast(Head(rs).utilization_rate, UtilizationThreshold) THEN Head(rs)
    ELSE FirstUtilized(Tail(rs))

\* max(results, key=packing_efficiency) of a non-empty list: the running
\* maximum is replaced only by a strictly greater key
RECURSIVE MaxEfficiency(_, _)
MaxEfficiency(best, rs) ==
    IF rs = <<>> THEN best
    ELSE IF LessFrac(best.packing_efficiency.num, best.packing_efficiency.den,
                     Head(rs).packing_efficiency.num, Head(rs).packing_efficiency.den)
         THEN MaxEfficiency(Head(rs), Tail(rs))
         ELSE MaxEfficiency(best, Tail(rs))

\* get_packing_recommendation that tests the utilisation before the efficiency
RecommendationUtilizationFirst(rs) ==
    IF rs = <<>> THEN None
    ELSE IF FirstUtilized(rs) # None THEN FirstUtilized(rs)
    ELSE IF FirstEfficient(rs) # None THEN FirstEfficient(rs)
    ELSE MaxEfficiency(Head(rs), Tail(rs))

\* get_packing_recommendation, lines 311-327, as a function of the list
Recommendation(rs) ==
    IF rs = <<>> THEN None
    ELSE IF FirstEfficient(rs) # None THEN FirstEfficient(rs)
    ELSE IF FirstUtilized(rs) # None THEN FirstUtilized(rs)
    ELSE MaxEfficiency(Head(rs), Tail(rs))

\* the caller passes the list calculate_packing returned
\* (main.py lines 90-100): recommended = get_packing_recommendation(results)
GetPackingRecommendation ==
    /\ pc = "done"
    /\ recommendation = NotCalled
    /\ recommendation' = Recommendation(results)
    /\ UNCHANGED <<products, boxes, pc, quantities, items, total_weight, total_volume,
                   suitable_boxes, box_idx, item_idx, packed_items, free_positions,
                   results, debug_log, prev>>
    /\ UNCHANGED <<rankerVars, utilVars>>

-----------------------------------------------------------------------------
(* src/src/data/rates.py: RateMaster *)

ShippingRate(carrier, size_code, box_number, rate) ==
    [carrier |-> carrier, size_code |-> size_code, box_number |-> box_number, rate |-> rate]

\* RateMaster._rates.  The carriers are Yamato Transport, Sagawa Express and
\* Japan Post; the box numbers written in Japanese are transliterated.  The
\* table has a row for "No.6", the stock box is numbered "No.6 (100)".
Rates ==
    << ShippingRate("Yamato", "60", "60size S12", 850),
       ShippingRate("Yamato", "60", "L4", 850),
       ShippingRate("Yamato", "60", "60size LL2", 850),
       ShippingRate("Yamato", "80", "80size", 1050),
       ShippingRate("Yamato", "100", "LL12", 1300),
       ShippingRate("Yamato", "100", "No.1", 1300),
       ShippingRate("Yamato", "120", "No.14", 1500),
       ShippingRate("Yamato", "120", "No.10", 1500),
       ShippingRate("Yamato", "120", "No.16", 1500),
       ShippingRate("Yamato", "130", "No.2", 1700),
       ShippingRate("Yamato", "130", "No.5", 1700),
       ShippingRate("Yamato", "130", "No.15", 1700),
       ShippingRate("Yamato", "140", "No.12go", 1950),
       ShippingRate("Yamato", "140", "No.6", 1950),
       ShippingRate("Sagawa", "60", "60size S12", 800),
       ShippingRate("Sagawa", "60", "L4", 800),
       ShippingRate("Sagawa", "60", "60size LL2", 800),
       ShippingRate("Sagawa", "80", "80size", 1000),
       ShippingRate("Sagawa", "100", "LL12", 1250),
       ShippingRate("Sagawa", "100", "No.1", 1250),
       ShippingRate("Sagawa", "120", "No.14", 1450),
       ShippingRate("Sagawa", "120", "No.10", 1450),
       ShippingRate("Sagawa", "120", "No.16", 1450),
       ShippingRate("Sagawa", "130", "No.2", 1650),
       ShippingRate("Sagawa", "130", "No.5", 1650),
       ShippingRate("Sagawa", "130", "No.15", 1650),
       ShippingRate("Sagawa", "140", "No.12go", 1900),
       ShippingRate("Sagawa", "140", "No.6", 1900),
       ShippingRate("JapanPost", "60", "60size S12", 810),
       ShippingRate("JapanPost", "60", "L4", 810),
       ShippingRate("JapanPost", "60", "60size LL2", 810),
       ShippingRate("JapanPost", "80", "80size", 1020),
       ShippingRate("JapanPost", "100", "LL12", 1270),
       ShippingRate("JapanPost", "100", "No.1", 1270),
       ShippingRate("JapanPost", "120", "No.14", 1470),
       ShippingRate("JapanPost", "120", "No.10", 1470),
       ShippingRate("JapanPost", "120", "No.16", 1470),
       ShippingRate("JapanPost", "130", "No.2", 1670),
       ShippingRate("JapanPost", "130", "No.5", 1670),
       ShippingRate("JapanPost", "130", "No.15", 1670),
       ShippingRate("JapanPost", "140", "No.12go", 1920),
       ShippingRate("JapanPost", "140", "No.6", 1920) >>

\* the keys of _rate_index, in insertion order
RECURSIVE CarriersOf(_, _)
CarriersOf(rates, seen) ==
    IF rates = <<>> THEN seen
    ELSE IF \E k \in 1..Len(seen) : seen[k] = Head(rates).carrier
         THEN CarriersOf(Tail(rates), seen)
         ELSE CarriersOf(Tail(rates), Append(seen, Head(rates).carrier))

\* RateMaster.get_carriers
GetCarriers == CarriersOf(Rates, <<>>)

\* RateMaster.get_rate: _rate_index[carrier][box_number], where a later row of
\* _rates replaces an earlier one with the same key; None without a row
GetRate(carrier, box_number) ==
    LET rows == { k \in 1..Len(Rates) :
                    Rates[k].carrier = carrier /\ Rates[k].box_number = box_number }
    IN  IF rows = {} THEN None
        ELSE Rates[CHOOSE k \in rows : \A n \in rows : n <= k]

\* RateMaster.get_cheapest_rate: the loop over the carriers keeps the first
\* rate that no later one undercuts
RECURSIVE CheapestRateFrom(_, _, _)
CheapestRateFrom(carriers, box_number, cheapest) ==
    IF carriers = <<>> THEN cheapest
    ELSE LET rate == GetRate(Head(carriers), box_number)
         IN  IF rate # None /\ (cheapest = None \/ rate.rate < cheapest.rate)
             THEN CheapestRateFrom(Tail(carriers), box_number, rate)
             ELSE CheapestRateFrom(Tail(carriers), box_number, cheapest)

GetCheapestRate(box_number) == CheapestRateFrom(GetCarriers, box_number, None)

\* sorted(rates, key=rate)
SortByRate(rates) ==
    StableSort(rates, [ i \in 1..Len(rates) |-> [ j \in 1..Len(rates) |->
                          rates[i].rate < rates[j].rate ] ])

\* the rates the carriers have for the box, in carrier order
RECURSIVE RatesOfCarriers(_, _)
RatesOfCarriers(carriers, box_number) ==
    IF carriers = <<>> THEN <<>>
    ELSE IF GetRate(Head(carriers), box_number) # None
         THEN <<GetRate(Head(carriers), box_number)>>
                  \o RatesOfCarriers(Tail(carriers), box_number)
         ELSE RatesOfCarriers(Tail(carriers), box_number)

\* RateMaster.get_all_rates_for_box
GetAllRatesForBox(box_number) == SortByRate(RatesOfCarriers(GetCarriers, box_number))

-----------------------------------------------------------------------------
(* src/src/core/shipping_calculator.py: ShippingCalculator *)

ShippingOption(packing_result, shipping_rate, savings) ==
    [packing_result |-> packing_result, shipping_rate |-> shipping_rate, savings |-> savings]

\* min(opt.shipping_rate.rate for opt in options) of a non-empty list
RECURSIVE MinRate(_)
MinRate(opts) ==
    IF Len(opts) = 1 THEN opts[1].shipping_rate.rate
    ELSE Min(Head(opts).shipping_rate.rate, MinRate(Tail(opts)))

\* options.sort(key=shipping_rate.rate)
SortOptionsByRate(opts) ==
    StableSort(opts, [ i \in 1..Len(opts) |-> [ j \in 1..Len(opts) |->
                         opts[i].shipping_rate.rate < opts[j].shipping_rate.rate ] ])

\* lines 33-38: one option per rate of the box of the result
OptionsOfRates(result, rates) ==
    [ j \in 1..Len(rates) |-> ShippingOption(result, rates[j], None) ]

\* lines 29-38: the options in the order built
RECURSIVE BuiltOptions(_)
BuiltOptions(rs) ==
    IF rs = <<>> THEN <<>>
    ELSE OptionsOfRates(Head(rs), GetAllRatesForBox(Head(rs).box.number))
             \o BuiltOptions(Tail(rs))

\* lines 41-44: savings against min_rate
WithSavings(built, min_rate) ==
    [ k \in 1..Len(built) |->
        ShippingOption(built[k].packing_result, built[k].shipping_rate,
                       built[k].shipping_rate.rate - min_rate) ]

\* calculate_shipping_options that returns the options in the order built
ShippingOptionsUnsorted(rs) ==
    IF BuiltOptions(rs) = <<>> THEN <<>>
    ELSE WithSavings(BuiltOptions(rs), MinRate(BuiltOptions(rs)))

\* ShippingCalculator.calculate_shipping_options, as a function of the list
ShippingOptions(rs) ==
    IF BuiltOptions(rs) = <<>> THEN <<>>
    ELSE SortOptionsByRate(WithSavings(BuiltOptions(rs), MinRate(BuiltOptions(rs))))

\* ShippingCalculator.get_cheapest_option: the loop over the results
RECURSIVE CheapestOptionFrom(_, _)
CheapestOptionFrom(rs, cheapest) ==
    IF rs = <<>> THEN cheapest
    ELSE LET rate == GetCheapestRate(Head(rs).box.number)
         IN  IF rate # None
                /\ (cheapest = None \/ rate.rate < cheapest.shipping_rate.rate)
             THEN CheapestOptionFrom(Tail(rs), ShippingOption(Head(rs), rate, None))
             ELSE CheapestOptionFrom(Tail(rs), cheapest)

\* the caller hands the list calculate_packing returned to
\* calculate_shipping_options (main.py lines 90-94)
CalculateShippingOptions ==
    /\ pc = "done"
    /\ ~shipping_options.returned
    /\ shipping_options' = Returned(ShippingOptions(results))
    /\ UNCHANGED <<products, boxes, pc, quantities, items, total_weight, total_volume,
                   suitable_boxes, box_idx, item_idx, packed_items, free_positions,
                   results, debug_log, prev, recommendation>>
    /\ UNCHANGED <<cheapest_option, options, enhanced_options, scored_options,
                   scored, score_parts>>
    /\ UNCHANGED utilVars

\* ShippingCalculator.get_cheapest_option on the list calculate_packing returned
GetCheapestOption ==
    /\ pc = "done"
    /\ ~cheapest_option.returned
    /\ cheapest_option' = Returned(CheapestOptionFrom(results, None))
    /\ UNCHANGED <<products, boxes, pc, quantities, items, total_weight, total_volume,
                   suitable_boxes, box_idx, item_idx, packed_items, free_positions,
                   results, debug_log, prev, recommendation>>
    /\ UNCHANGED <<shipping_options, options, enhanced_options, scored_options,
                   scored, score_parts>>
    /\ UNCHANGED utilVars

-----------------------------------------------------------------------------
(* src/src/advanced/multi_carrier.py: MultiCarrierManager *)

CarrierService(carrier, service_name, delivery_time, tracking, insurance, special_features) ==
    [carrier |-> carrier, service_name |-> service_name, delivery_time |-> delivery_time,
     tracking |-> tracking, insurance |-> insurance, special_features |-> special_features]

\* the delivery_time strings, as sequences of characters: YOKU, NICHI and DOU
\* stand for the three Japanese characters of "next day" and "day after next"
NextDay == <<"YOKU", "NICHI">>
SecondDay == <<"YOKU", "DOU", "NICHI">>
NextOrSecondDay == NextDay \o <<"-">> \o SecondDay
TwoToFourDays == <<"2", "-", "4", "NICHI">>

\* _initialize_services: the services of each carrier, in dict order
InitializeServices ==
    << [carrier |-> "Yamato", services |-> <<
          CarrierService("Yamato", "Takkyubin", NextOrSecondDay, TRUE, TRUE,
                         <<"time slot", "free redelivery", "store pickup">>),
          CarrierService("Yamato", "Nekopos", NextOrSecondDay, TRUE, FALSE,
                         <<"mailbox", "thin only">>),
          CarrierService("Yamato", "Takkyubin Compact", NextOrSecondDay, TRUE, TRUE,
                         <<"dedicated box", "compact">>) >>],
       [carrier |-> "Sagawa", services |-> <<
          CarrierService("Sagawa", "Hikyaku Takuhaibin", NextOrSecondDay, TRUE, TRUE,
                         <<"time slot", "office pickup">>),
          CarrierService("Sagawa", "Hikyaku Mailbin", TwoToFourDays, TRUE, FALSE,
                         <<"mailbox", "low price">>) >>],
       [carrier |-> "JapanPost", services |-> <<
          CarrierService("JapanPost", "Yu-Pack", NextOrSecondDay, TRUE, TRUE,
                         <<"post office pickup", "store pickup", "cash on delivery">>),
          CarrierService("JapanPost", "Click Post", NextOrSecondDay, TRUE, FALSE,
                         <<"flat rate", "mailbox">>),
          CarrierService("JapanPost", "Letter Pack", NextDay, TRUE, FALSE,
                         <<"handed over", "flat rate">>) >>] >>

\* _initialize_special_rates: the surcharge of each add-on, per carrier
InitializeSpecialRates ==
    [ time_designation |-> [Yamato |-> 0, Sagawa |-> 0, JapanPost |-> 0],
      cash_on_delivery |-> [Yamato |-> 330, Sagawa |-> 330, JapanPost |-> 260],
      insurance_extra  |-> [Yamato |-> 0, Sagawa |-> 0, JapanPost |-> 0],
      express_delivery |-> [Yamato |-> 220, Sagawa |-> 220, JapanPost |-> 320] ]

EnhancedShippingOption(packing_result, shipping_rate, service, estimated_delivery, total_cost) ==
    [packing_result |-> packing_result, shipping_rate |-> shipping_rate,
     service |-> service, estimated_delivery |-> estimated_delivery,
     total_cost |-> total_cost, savings |-> 0, recommendation_score |-> <<0, 1>>]

\* needle in hay, for strings
Contains(needle, hay) ==
    \E i \in 0..(Len(hay) - Len(needle)) : SubSeq(hay, i + 1, i + Len(needle)) = needle

\* box height limit of the thin-parcel services: 3.0 cm
ThinHeight == 30

\* _is_service_applicable
IsServiceApplicable(service, result) ==
    IF service.service_name \in {"Nekopos", "Click Post"}
    THEN result.box.height <= ThinHeight
    ELSE IF service.service_name = "Takkyubin Compact"
         THEN result.box.number \in {"B-60", "B-80"}
         ELSE TRUE

\* the surcharges summed whether the add-on is switched on or off
RECURSIVE CalculateOptionCostsOfAll(_, _)
CalculateOptionCostsOfAll(carrier, opts) ==
    IF opts = <<>> THEN 0
    ELSE LET option_name == Head(opts)[1]
             cost == IF option_name \in DOMAIN InitializeSpecialRates
                     THEN IF carrier \in DOMAIN InitializeSpecialRates[option_name]
                          THEN InitializeSpecialRates[option_name][carrier]
                          ELSE 0
                     ELSE 0
         IN  cost + CalculateOptionCostsOfAll(carrier, Tail(opts))

\* _calculate_option_costs: the surcharges of the enabled add-ons the table
\* knows; opts is options.items() as <<name, enabled>> pairs
RECURSIVE CalculateOptionCosts(_, _)
CalculateOptionCosts(carrier, opts) ==
    IF opts = <<>> THEN 0
    ELSE LET option_name == Head(opts)[1]
             enabled == Head(opts)[2]
             cost == IF enabled /\ option_name \in DOMAIN InitializeSpecialRates
                     THEN IF carrier \in DOMAIN InitializeSpecialRates[option_name]
                          THEN InitializeSpecialRates[option_name][carrier]
                          ELSE 0
                     ELSE 0
         IN  cost + CalculateOptionCosts(carrier, Tail(opts))

\* _calculate_delivery_date: the number of days added to today
CalculateDeliveryDate(service) ==
    IF Contains(NextDay, service.delivery_time) THEN 1
    ELSE IF Contains(SecondDay, service.delivery_time) THEN 2
    ELSE IF Contains(TwoToFourDays, service.delivery_time) THEN 3
    ELSE 2

\* the names the class RateMaster of rates.py defines
RateMasterAttributes ==
    {"_rates", "_rate_index", "get_rate", "get_cheapest_rate",
     "get_all_rates_for_box", "get_carriers"}

\* an exception left the try block of lines 137-163
Raised == [raised |-> TRUE]

\* the fields of the dataclass ShippingRate of rates.py
ShippingRateFields == {"carrier", "size_code", "box_number", "rate"}

\* _create_default_rate: default_rates and the rate of any other carrier
DefaultRates == [Yamato |-> 800, Sagawa |-> 750, JapanPost |-> 700]
OtherCarrierRate == 800

\* _create_default_rate: ShippingRate(carrier=, size=, rate=).  The dataclass
\* constructor raises TypeError for a keyword that is not a field and for a
\* field without default that is not given.
CreateDefaultRate(carrier, box_number) ==
    IF {"carrier", "size", "rate"} = ShippingRateFields
    THEN [carrier |-> carrier, size |-> box_number,
          rate |-> IF carrier \in DOMAIN DefaultRates THEN DefaultRates[carrier]
                   ELSE OtherCarrierRate]
    ELSE Raised

\* lines 138-142: the rate of the (carrier, box) pair.  Line 138 calls
\* self.rate_master.get_rates_by_carrier(carrier); rate_master is the rate
\* master of rates.py (imported under the name RatesMaster, which rates.py
\* does not define either), and a name it does not define raises
\* AttributeError.
ResolveRate(carrier, box_number) ==
    IF "get_rates_by_carrier" \in RateMasterAttributes
    THEN IF GetRate(carrier, box_number) = None
         THEN CreateDefaultRate(carrier, box_number)
         ELSE GetRate(carrier, box_number)
    ELSE Raised

\* lines 137-166: the options one carrier adds for one result.  An exception
\* in the try block is caught at line 164 and the loop goes on to the next
\* carrier.
CarrierOptions(result, carrier, opts) ==
    LET rate == ResolveRate(carrier.carrier, result.box.number)
        applies(service) == IsServiceApplicable(service, result)
        applicable == SelectSeq(carrier.services, applies)
    IN  IF rate = Raised THEN <<>>
        ELSE [ k \in 1..Len(applicable) |->
                 EnhancedShippingOption(result, rate, applicable[k],
                     CalculateDeliveryDate(applicable[k]),
                     rate.rate + CalculateOptionCosts(carrier.carrier, opts)) ]

\* the weights of the four sub-scores and the values of the speed sub-score
CostWeight == <<2, 5>>
SpeedWeight == <<3, 10>>
QualityWeight == <<1, 5>>
UtilizationWeight == <<1, 10>>
One == <<1, 1>>

\* min and max of the total costs of a non-empty list
RECURSIVE MinCost(_)
MinCost(opts) ==
    IF Len(opts) = 1 THEN opts[1].total_cost
    ELSE Min(Head(opts).total_cost, MinCost(Tail(opts)))
RECURSIVE MaxCost(_)
MaxCost(opts) ==
    IF Len(opts) = 1 THEN opts[1].total_cost
    ELSE Max(Head(opts).total_cost, MaxCost(Tail(opts)))

\* p - q and min(p, q) on fractions
FracSub(p, q) == FracAdd(p, <<-q[1], q[2]>>)
FracMin(p, q) == IF LessFrac(q[1], q[2], p[1], p[2]) THEN q ELSE p

\* lines 228-231: cost_range
CostRange(opts) ==
    IF MaxCost(opts) > MinCost(opts) THEN MaxCost(opts) - MinCost(opts) ELSE 1

\* the cost score without the complement: the distance from the cheapest
CostScoreFromCheapest(opts, k) ==
    Frac(opts[k].total_cost - MinCost(opts), CostRange(opts))

\* line 237: cost_score
CostScore(opts, k) ==
    FracSub(One, Frac(opts[k].total_cost - MinCost(opts), CostRange(opts)))

\* lines 241-246: speed_score
SpeedScore(service) ==
    IF Contains(NextDay, service.delivery_time) THEN <<1, 1>>
    ELSE IF Contains(SecondDay, service.delivery_time) THEN <<4, 5>>
    ELSE <<3, 5>>

\* lines 250-255: quality_score
QualityScore(service) ==
    FracAdd(FracAdd(IF service.tracking THEN <<3, 10>> ELSE <<0, 1>>,
                    IF service.insurance THEN <<3, 10>> ELSE <<0, 1>>),
            FracMulInt(<<1, 10>>, Len(service.special_features)))

\* line 259: utilization_score
UtilizationScore(result) ==
    FracMin(Frac(result.utilization_rate.num, result.utilization_rate.den), One)

\* the loop iteration with the quality sum added uncapped
ScorePartsUncapped(opts, k) ==
    LET cost_score == CostScore(opts, k)
        speed_score == SpeedScore(opts[k].service)
        quality_score == QualityScore(opts[k].service)
        utilization_score == UtilizationScore(opts[k].packing_result)
    IN  [ cost_score |-> cost_score,
          speed_score |-> speed_score,
          quality_score |-> quality_score,
          utilization_score |-> utilization_score,
          score |-> FracAdd(FracAdd(FracMul(cost_score, CostWeight),
                                    FracMul(speed_score, SpeedWeight)),
                            FracAdd(FracMul(quality_score, QualityWeight),
                                    FracMul(utilization_score, UtilizationWeight))) ]

\* lines 233-262: the locals of the loop iteration of option k and the score
\* it stores
ScoreParts(opts, k) ==
    LET cost_score == CostScore(opts, k)
        speed_score == SpeedScore(opts[k].service)
        quality_score == QualityScore(opts[k].service)
        utilization_score == UtilizationScore(opts[k].packing_result)
    IN  [ cost_score |-> cost_score,
          speed_score |-> speed_score,
          quality_score |-> quality_score,
          utilization_score |-> utilization_score,
          score |-> FracAdd(FracAdd(FracMul(cost_score, CostWeight),
                                    FracMul(speed_score, SpeedWeight)),
                            FracAdd(FracMul(FracMin(quality_score, One), QualityWeight),
                                    FracMul(utilization_score, UtilizationWeight))) ]

\* _calculate_recommendation_scores, as a function of the list: the options
\* with recommendation_score set (an empty list is returned at line 226)
RecommendationScores(opts) ==
    [ k \in 1..Len(opts) |->
        [opts[k] EXCEPT !.recommendation_score = ScoreParts(opts, k).score] ]

\* enhanced_options.sort(key=(-recommendation_score, total_cost))
SortByScore(opts) ==
    StableSort(opts, [ i \in 1..Len(opts) |-> [ j \in 1..Len(opts) |->
        \/ LessFrac(opts[j].recommendation_score[1], opts[j].recommendation_score[2],
                    opts[i].recommendation_score[1], opts[i].recommendation_score[2])
        \/ /\ opts[i].recommendation_score = opts[j].recommendation_score
           /\ opts[i].total_cost < opts[j].total_cost ] ])

\* get_enhanced_shipping_options, as a function of its arguments
EnhancedOptions(rs, opts) ==
    LET built == Flatten([ i \in 1..Len(rs) |->
                    Flatten([ c \in 1..Len(InitializeServices) |->
                                CarrierOptions(rs[i], InitializeServices[c], opts) ]) ])
        with_scores == RecommendationScores(built)
        with_savings ==
            IF with_scores = <<>> THEN with_scores
            ELSE [ k \in 1..Len(with_scores) |->
                     [with_scores[k] EXCEPT
                        !.savings = with_scores[k].total_cost - MinCost(with_scores)] ]
    IN  SortByScore(with_savings)

\* the add-on switches a caller passes: none (options=None becomes {}), or
\* one or two of the add-ons switched on
AddOnSettings ==
    { <<>>,
      << <<"cash_on_delivery", TRUE>> >>,
      << <<"cash_on_delivery", TRUE>>, <<"express_delivery", TRUE>> >> }

\* get_enhanced_shipping_options on the list calculate_packing returned
\* (main_enhanced.py lines 125-132)
GetEnhancedShippingOptions(opts) ==
    /\ pc = "done"
    /\ ~enhanced_options.returned
    /\ options' = opts
    /\ enhanced_options' = Returned(EnhancedOptions(results, opts))
    /\ UNCHANGED <<products, boxes, pc, quantities, items, total_weight, total_volume,
                   suitable_boxes, box_idx, item_idx, packed_items, free_positions,
                   results, debug_log, prev, recommendation>>
    /\ UNCHANGED <<shipping_options, cheapest_option, scored_options, scored, score_parts>>
    /\ UNCHANGED utilVars

\* the PackingResult calculate_packing returns for one unit of a stock
\* product in a stock box: the unit lies unrotated at the origin
OneUnitResult(product, box) ==
    LET placed == << [ product |-> product, x |-> 0, y |-> 0, z |-> 0,
                       width |-> product.width, depth |-> product.depth,
                       height |-> product.height, rotated |-> FALSE ] >>
        inner_dims == InnerDimensions(box)
    IN  [ box |-> box,
          items |-> << [size |-> product.size, product |-> product] >>,
          packed_items |-> placed,
          total_weight |-> product.weight,
          total_volume |-> ActualVolume(placed),
          utilization_rate |->
              Percent(ActualVolume(placed), inner_dims[1] * inner_dims[2] * inner_dims[3]),
          packing_efficiency |->
              Percent(ActualVolume(placed),
                      inner_dims[1] * inner_dims[2] * MaxHeightUsed(placed)),
          is_feasible |-> TRUE ]

\* the results a list of options is built from: the first results of the
\* requests for one unit of S and for one unit of L, both in box No.1
SampleResults ==
    << OneUnitResult(InitialProducts[1], InitialBoxes[1]),
       OneUnitResult(InitialProducts[3], InitialBoxes[1]) >>

\* a service a caller adds to the table: tracked, insured and with five
\* listed features, so that its quality sum is above 1.0
ExtraServices ==
    << CarrierService("Sagawa", "Hikyaku Cool", TwoToFourDays, TRUE, TRUE,
                      <<"time slot", "office pickup", "chilled", "frozen", "mail notice">>) >>

\* the services of the table, carrier by carrier, and the added ones
RECURSIVE ServicesOf(_)
ServicesOf(table) ==
    IF table = <<>> THEN <<>> ELSE Head(table).services \o ServicesOf(Tail(table))
SampleServices == ServicesOf(InitializeServices) \o ExtraServices

\* lines 148-161: the option of a result and a service, at the rate of the
\* service's carrier for the box and without add-ons
SampleOption(result, service) ==
    LET rate == GetRate(service.carrier, result.box.number)
    IN  EnhancedShippingOption(result, rate, service, CalculateDeliveryDate(service),
                               rate.rate + CalculateOptionCosts(service.carrier, <<>>))

SampleOptions ==
    { SampleOption(SampleResults[i], SampleServices[k]) :
        i \in 1..Len(SampleResults), k \in 1..Len(SampleServices) }

\* the lists _calculate_recommendation_scores is applied to
MaxOptions == 2
OptionLists == UNION { [1..n -> SampleOptions] : n \in 0..MaxOptions }

\* _calculate_recommendation_scores(options): every option of the list gets
\* its recommendation_score; score_parts keeps the sub-scores each loop
\* iteration computed
CalculateRecommendationScores ==
    /\ ~scored
    /\ scored' = TRUE
    /\ scored_options' = RecommendationScores(scored_options)
    /\ score_parts' = [ k \in 1..Len(scored_options) |-> ScoreParts(scored_options, k) ]
    /\ UNCHANGED <<products, boxes, pc, quantities, items, total_weight, total_volume,
                   suitable_boxes, box_idx, item_idx, packed_items, free_positions,
                   results, debug_log, prev, recommendation>>
    /\ UNCHANGED <<shipping_options, cheapest_option, options, enhanced_options>>
    /\ UNCHANGED utilVars

-----------------------------------------------------------------------------
(* Helper functions: add-on surcharges and grid capacity *)

\* carriers a caller can name: the three of the tables and one they lack
CarrierNames == {"Yamato", "Sagawa", "JapanPost", "Seino"}

\* add-on names a caller can switch: the four of the surcharge table and one
\* it lacks
AddOnNames ==
    <<"time_designation", "cash_on_delivery", "insurance_extra", "express_delivery",
      "gift_wrap">>

\* the options dicts passed: each name absent, switched on or switched off;
\* items() lists them in the order of AddOnNames
RECURSIVE OptionDictsFrom(_)
OptionDictsFrom(k) ==
    IF k > Len(AddOnNames) THEN { <<>> }
    ELSE LET rest == OptionDictsFrom(k + 1)
         IN  rest \cup { << <<AddOnNames[k], enabled>> >> \o d :
                           enabled \in BOOLEAN, d \in rest }
OptionDicts == OptionDictsFrom(1)

\* a call of _calculate_option_costs(carrier, options)
CalculateOptionCostsCall(carrier, opts) ==
    /\ option_costs = NotCalled /\ max_fit = NotCalled /\ grid = NotCalled
    /\ option_costs' = [called |-> TRUE, carrier |-> carrier, options |-> opts,
                        value |-> CalculateOptionCosts(carrier, opts)]
    /\ UNCHANGED <<max_fit, grid>>
    /\ UNCHANGED <<engineVars, rankerVars, parVars, now, limitVars, sessionVars, cacheVars>>

\* _calculate_max_fit, the orientations list of a product
FitOrientations(product) ==
    << <<product.width, product.depth, product.height>>,
       <<product.depth, product.width, product.height>>,
       <<product.width, product.height, product.depth>>,
       <<product.depth, product.height, product.width>>,
       <<product.height, product.width, product.depth>>,
       <<product.height, product.depth, product.width>> >>

\* the count of one orientation: x_count * y_count * z_count
FitCount(inner_dims, o) ==
    (inner_dims[1] \div o[1]) * (inner_dims[2] \div o[2]) * (inner_dims[3] \div o[3])

\* the loop of _calculate_max_fit over the native and the swapped orientation
\* only
RECURSIVE MaxCountUpright(_, _, _)
MaxCountUpright(inner_dims, os, max_count) ==
    IF os = <<>> \/ Len(os) <= 4 THEN max_count
    ELSE MaxCountUpright(inner_dims, Tail(os), Max(max_count, FitCount(inner_dims, Head(os))))

\* the loop of _calculate_max_fit: max_count after the orientations os
RECURSIVE MaxCount(_, _, _)
MaxCount(inner_dims, os, max_count) ==
    IF os = <<>> THEN max_count
    ELSE MaxCount(inner_dims, Tail(os), Max(max_count, FitCount(inner_dims, Head(os))))

\* CloudApp._calculate_max_fit(box, product)
CalculateMaxFit(box, product) ==
    MaxCount(InnerDimensions(box), FitOrientations(product), 0)

\* the boxes and products the capacity is asked for: the stock catalogs and
\* the registered extras
FitBoxes == { InitialBoxes[k] : k \in 1..Len(InitialBoxes) } \cup ExtraBoxes
FitProducts == { InitialProducts[k] : k \in 1..Len(InitialProducts) } \cup ExtraProducts

\* a call of _calculate_max_fit(box, product)
CalculateMaxFitCall(box, product) ==
    /\ option_costs = NotCalled /\ max_fit = NotCalled /\ grid = NotCalled
    /\ max_fit' = [called |-> TRUE, box |-> box, product |-> product,
                   value |-> CalculateMaxFit(box, product)]
    /\ UNCHANGED <<option_costs, grid>>
    /\ UNCHANGED <<engineVars, rankerVars, parVars, now, limitVars, sessionVars, cacheVars>>

\* largest group handed to a grid attempt
MaxGroup == 3

\* the first orientation whose count is the capacity
BestOrientation(box, product) ==
    LET os == FitOrientations(product)
        k == CHOOSE k \in 1..Len(os) :
                /\ FitCount(InnerDimensions(box), os[k]) = CalculateMaxFit(box, product)
                /\ \A j \in 1..(k - 1) :
                      FitCount(InnerDimensions(box), os[j]) # CalculateMaxFit(box, product)
    IN  os[k]

\* the grid packer for one group in an empty box: it fails, with no unit
\* placed, when the capacity is below the quantity, and otherwise places the
\* units row-major (x fastest, then y, then z) in the orientation of the
\* capacity
GridPlacement(box, product, quantity) ==
    IF CalculateMaxFit(box, product) < quantity THEN <<>>
    ELSE LET o == BestOrientation(box, product)
             x_count == InnerDimensions(box)[1] \div o[1]
             y_count == InnerDimensions(box)[2] \div o[2]
         IN  [ k \in 1..quantity |->
                 [ product |-> product,
                   x |-> ((k - 1) % x_count) * o[1],
                   y |-> (((k - 1) \div x_count) % y_count) * o[2],
                   z |-> ((k - 1) \div (x_count * y_count)) * o[3],
                   width |-> o[1], depth |-> o[2], height |-> o[3] ] ]

\* a grid attempt for a group of one product in a box
GridAttempt(box, product, quantity) ==
    /\ option_costs = NotCalled /\ max_fit = NotCalled /\ grid = NotCalled
    /\ grid' = [called |-> TRUE, box |-> box, product |-> product,
                quantity |-> quantity, capacity |-> CalculateMaxFit(box, product),
                value |-> GridPlacement(box, product, quantity)]
    /\ UNCHANGED <<option_costs, max_fit>>
    /\ UNCHANGED <<engineVars, rankerVars, parVars, now, limitVars, sessionVars, cacheVars>>

-----------------------------------------------------------------------------
(* src/src/utils/performance.py: ParallelProcessor *)

\* longest list handed to process_parallel
MaxItems == 4

\* lists of fewer items are processed by the calling thread
ParallelThreshold == 4

\* ThreadPoolExecutor(max_workers=self.max_workers)
MaxWorkers == 4

\* the lists handed to process_parallel: item k of n, and whether func raises
\* for it
ItemLists ==
    UNION { { [ k \in 1..n |-> [item |-> k, raises |-> k \in failing] ] :
                failing \in SUBSET (1..n) } : n \in 0..MaxItems }

\* what func returns for an item it does not raise for
Func(item) == [of |-> item.item]

\* process_parallel, lines 170-186: an empty list is returned as it is; a list
\* below the threshold is processed in order by the calling thread, and an
\* exception of func leaves the function; otherwise every item is submitted to
\* the pool, whose workers start on the first max_workers of them
ProcessParallel(its) ==
    /\ par_pc = "idle"
    /\ par_items' = its
    /\ IF its = <<>> \/ Len(its) < ParallelThreshold
       THEN /\ par_futures' = <<>>
            /\ IF \E k \in 1..Len(its) : its[k].raises
               THEN par_pc' = "raised" /\ par_results' = <<>>
               ELSE /\ par_pc' = "done"
                    /\ par_results' = [ k \in 1..Len(its) |-> Func(its[k]) ]
       ELSE /\ par_futures' = [ k \in 1..Len(its) |->
                                  IF k <= MaxWorkers THEN "running" ELSE "queued" ]
            /\ par_results' = <<>>
            /\ par_pc' = "collect"
    /\ UNCHANGED <<engineVars, rankerVars, helperVars, now, limitVars, sessionVars, cacheVars>>

\* a worker thread ends func(item) for item k, which sets its future, and
\* takes the next queued item
TaskFinishes(k) ==
    /\ par_pc = "collect"
    /\ k \in 1..Len(par_futures)
    /\ par_futures[k] = "running"
    /\ par_futures' =
          [ j \in 1..Len(par_futures) |->
              IF j = k THEN "finished"
              ELSE IF /\ par_futures[j] = "queued"
                      /\ \A i \in 1..(j - 1) : par_futures[i] # "queued"
                   THEN "running"
                   ELSE par_futures[j] ]
    /\ UNCHANGED <<par_items, par_results, par_pc>>
    /\ UNCHANGED <<engineVars, rankerVars, helperVars, now, limitVars, sessionVars, cacheVars>>

\* lines 189-196: as_completed yields a finished future; its result, or None
\* when func raised, is appended to results
CollectFuture(k) ==
    /\ par_pc = "collect"
    /\ k \in 1..Len(par_futures)
    /\ par_futures[k] = "finished"
    /\ par_futures' = [par_futures EXCEPT ![k] = "collected"]
    /\ par_results' = Append(par_results,
                             IF par_items[k].raises THEN None ELSE Func(par_items[k]))
    /\ UNCHANGED <<par_items, par_pc>>
    /\ UNCHANGED <<engineVars, rankerVars, helperVars, now, limitVars, sessionVars, cacheVars>>

\* lines 198-206: every future was yielded; results is returned
ReturnParallelResults ==
    /\ par_pc = "collect"
    /\ \A k \in 1..Len(par_futures) : par_futures[k] = "collected"
    /\ par_pc' = "done"
    /\ UNCHANGED <<par_items, par_futures, par_results>>
    /\ UNCHANGED <<engineVars, rankerVars, helperVars, now, limitVars, sessionVars, cacheVars>>

-----------------------------------------------------------------------------
(* src/src/utils/security.py: SecurityManager.check_rate_limit *)

\* settings.security.rate_limit_per_minute, scaled down from 60 (30, 80 and
\* 120 in the environment configurations)
RateLimitPerMinute == 2

\* the check_rate_limit calls of a behaviour
MaxCalls == 5

\* the length of the window and the age at which the store forgets, in seconds
WindowSeconds == 60
CleanupHorizon == 3600

\* the (identifier, action) pairs the decorator rate_limited passes: a client
\* without a session, and a session with two actions
Clients == { <<"anonymous", "default">>, <<"s1", "default">>, <<"s1", "calculate">> }

\* the seconds that pass between two calls
Gaps == {0, 30, 3600}

\* a dict as the list of its (key, value) pairs in insertion order
Keys(d) == { d[k][1] : k \in 1..Len(d) }
Lookup(d, key) == d[CHOOSE k \in 1..Len(d) : d[k][1] = key][2]
Store(d, key, value) ==
    IF key \in Keys(d)
    THEN [ k \in 1..Len(d) |-> IF d[k][1] = key THEN <<key, value>> ELSE d[k] ]
    ELSE Append(d, <<key, value>>)
Delete(d, key) ==
    LET Keep(e) == e[1] # key IN SelectSeq(d, Keep)

\* the timestamps less than the given age before current_time
Younger(times, current_time, age) ==
    LET Recent(ts) == current_time - ts < age IN SelectSeq(times, Recent)

\* _cleanup_rate_limit_store: timestamps of an hour or more are dropped, and
\* a key without timestamps is deleted
CleanupRateLimitStore(store, current_time) ==
    LET trimmed == [ k \in 1..Len(store) |->
                       <<store[k][1], Younger(store[k][2], current_time, CleanupHorizon)>> ]
        NonEmpty(e) == e[2] # <<>>
    IN  SelectSeq(trimmed, NonEmpty)

\* recent_requests with a window that is closed at its far end
RecentRequestsInclusive(times, current_time) ==
    LET Recent(ts) == current_time - ts <= WindowSeconds IN SelectSeq(times, Recent)

\* recent_requests, lines 94-97
RecentRequests(times, current_time) == Younger(times, current_time, WindowSeconds)

\* check_rate_limit(identifier, action), called gap seconds after the
\* previous call
CheckRateLimit(identifier, action, gap) ==
    /\ Len(limit_log) < MaxCalls
    /\ LET current_time == now + gap
           key == identifier \o ":" \o action
           cleaned == CleanupRateLimitStore(rate_limit_store, current_time)
           present == IF key \in Keys(cleaned) THEN cleaned ELSE Store(cleaned, key, <<>>)
           recent_requests == RecentRequests(Lookup(present, key), current_time)
       IN  /\ now' = current_time
           /\ IF Len(recent_requests) >= RateLimitPerMinute
              THEN /\ rate_limit_store' = present
                   /\ limit_log' = Append(limit_log,
                          [key |-> key, time |-> current_time, returned |-> FALSE])
              ELSE /\ rate_limit_store' = Store(present, key,
                                                Append(recent_requests, current_time))
                   /\ limit_log' = Append(limit_log,
                          [key |-> key, time |-> current_time, returned |-> TRUE])
    /\ UNCHANGED <<engineVars, rankerVars, helperVars, parVars, sessionVars, cacheVars>>

-----------------------------------------------------------------------------
(* src/src/utils/performance.py: CacheManager and cached_function *)

\* CacheManager(max_size), scaled down from the default of 1000
MaxSize == 2

\* the clock stops here
MaxTime == 3

CacheKeys == {"k1", "k2", "k3"}
Ttls == {1, 2}
Ticks == {0, 1, 2}

\* the value a cached function computes
Computed == "result"

\* _evict_oldest: the key with the least access time, the first such key of
\* the dict, is deleted from cache and access_times
EvictOldest(c, a) ==
    IF a = <<>> THEN <<c, a>>
    ELSE LET first == CHOOSE k \in 1..Len(a) :
                          /\ \A j \in 1..Len(a) : a[k][2] <= a[j][2]
                          /\ \A j \in 1..(k - 1) : a[j][2] > a[k][2]
             oldest_key == a[first][1]
         IN  <<Delete(c, oldest_key), Delete(a, oldest_key)>>

\* the cache and the access times after set(key, value, ttl) at current_time
SetEntry(c, a, key, value, ttl, current_time) ==
    LET evicted == IF Len(c) >= MaxSize THEN EvictOldest(c, a) ELSE <<c, a>>
    IN  << Store(evicted[1], key, [value |-> value,
                                   expires_at |-> current_time + ttl,
                                   created_at |-> current_time]),
           Store(evicted[2], key, current_time) >>

\* CacheManager.get(key)
CacheGet(key, tick) ==
    /\ now + tick <= MaxTime
    /\ now' = now + tick
    /\ IF key \in Keys(cache)
       THEN /\ access_times' = Store(access_times, key, now')
            /\ cache_log' = [op |-> "get", key |-> key, time |-> now',
                             returned |-> Lookup(cache, key)]
       ELSE /\ cache_log' = [op |-> "get", key |-> key, time |-> now', returned |-> None]
            /\ UNCHANGED access_times
    /\ UNCHANGED cache
    /\ UNCHANGED <<engineVars, rankerVars, helperVars, parVars, limitVars, sessionVars>>

\* CacheManager.set(key, value, ttl)
CacheSet(key, value, ttl, tick) ==
    /\ now + tick <= MaxTime
    /\ now' = now + tick
    /\ cache' = SetEntry(cache, access_times, key, value, ttl, now')[1]
    /\ access_times' = SetEntry(cache, access_times, key, value, ttl, now')[2]
    /\ cache_log' = [op |-> "set", key |-> key, time |-> now', returned |-> None]
    /\ UNCHANGED <<engineVars, rankerVars, helperVars, parVars, limitVars, sessionVars>>

\* CacheManager.delete(key)
CacheDelete(key) ==
    /\ cache' = Delete(cache, key)
    /\ access_times' = Delete(access_times, key)
    /\ cache_log' = [op |-> "delete", key |-> key, time |-> now, returned |-> None]
    /\ UNCHANGED now
    /\ UNCHANGED <<engineVars, rankerVars, helperVars, parVars, limitVars, sessionVars>>

\* CacheManager.clear_expired()
ClearExpired(tick) ==
    /\ now + tick <= MaxTime
    /\ now' = now + tick
    /\ LET Live(e) == ~(now' > e[2].expires_at)
           live == SelectSeq(cache, Live)
           Kept(e) == e[1] \in Keys(live)
       IN  /\ cache' = live
           /\ access_times' = SelectSeq(access_times, Kept)
           /\ cache_log' = [op |-> "clear_expired", key |-> "", time |-> now',
                            returned |-> Len(cache) - Len(live)]
    /\ UNCHANGED <<engineVars, rankerVars, helperVars, parVars, limitVars, sessionVars>>

\* the wrapper of cached_function(ttl) called with arguments that give
\* cache_key: the stored value if get returns an entry, else the function is
\* run and its result stored
CachedFunction(cache_key, ttl, tick) ==
    /\ now + tick <= MaxTime
    /\ now' = now + tick
    /\ IF cache_key \in Keys(cache)
       THEN /\ access_times' = Store(access_times, cache_key, now')
            /\ cache_log' = [op |-> "cached_function", key |-> cache_key, time |-> now',
                             returned |-> Lookup(cache, cache_key).value,
                             computed |-> FALSE]
            /\ UNCHANGED cache
       ELSE /\ cache' = SetEntry(cache, access_times, cache_key, Computed, ttl, now')[1]
            /\ access_times' = SetEntry(cache, access_times, cache_key, Computed, ttl, now')[2]
            /\ cache_log' = [op |-> "cached_function", key |-> cache_key, time |-> now',
                             returned |-> Computed, computed |-> TRUE]
    /\ UNCHANGED <<engineVars, rankerVars, helperVars, parVars, limitVars, sessionVars>>

-----------------------------------------------------------------------------
(* src/src/utils/security.py: sessions *)

\* settings.security.session_timeout, scaled down from 3600 seconds
SessionTimeout == 2

\* the sessions created in a behaviour
MaxSessions == 2

\* generate_session_token: secrets.token_urlsafe(32), a token that was never
\* produced or presented before
TokenNames == <<"t1", "t2", "t3", "t4">>
GenerateSessionToken == TokenNames[Len(tokens_issued) + 1]

\* the tokens a caller presents: the issued ones, one that was never issued,
\* and the empty string
PresentedTokens == { tokens_issued[k].token : k \in 1..Len(tokens_issued) } \cup {"forged", ""}

\* the timeout test on the last access instead of the creation
SessionIdle(session_data, current_time) ==
    current_time - session_data.last_access > SessionTimeout

\* the timeout test of validate_session and _cleanup_sessions
SessionExpired(session_data, current_time) ==
    current_time - session_data.created_at > SessionTimeout

\* _cleanup_sessions
CleanupSessions(store, current_time) ==
    LET Live(e) == ~SessionExpired(e[2], current_time) IN SelectSeq(store, Live)

\* the store after create_session has stored the token at current_time
CreatedSession(store, token, current_time) ==
    CleanupSessions(Store(store, token, [created_at |-> current_time,
                                         last_access |-> current_time,
                                         user_data |-> <<>>]),
                    current_time)

\* the value validate_session returns
Validates(store, token, current_time) ==
    /\ token # ""
    /\ token \in Keys(store)
    /\ ~SessionExpired(Lookup(store, token), current_time)

\* the store validate_session leaves
ValidatedSession(store, token, current_time) ==
    IF token = "" \/ token \notin Keys(store) THEN store
    ELSE IF SessionExpired(Lookup(store, token), current_time) THEN Delete(store, token)
    ELSE Store(store, token, [Lookup(store, token) EXCEPT !.last_access = current_time])

\* session_log after validate_session has returned
Logged(token, current_time, returned) ==
    [last |-> [token |-> token, time |-> current_time, returned |-> returned],
     rejected |-> IF returned THEN session_log.rejected
                  ELSE session_log.rejected \cup {token}]

\* SecurityManager.create_session()
CreateSession(tick) ==
    /\ now + tick <= MaxTime
    /\ Len(tokens_issued) < MaxSessions
    /\ now' = now + tick
    /\ tokens_issued' = Append(tokens_issued, [token |-> GenerateSessionToken, time |-> now'])
    /\ session_store' = CreatedSession(session_store, GenerateSessionToken, now')
    /\ UNCHANGED <<session_log, session_id>>
    /\ UNCHANGED <<engineVars, rankerVars, helperVars, parVars, limitVars, cacheVars>>

\* SecurityManager.validate_session(token)
ValidateSession(token, tick) ==
    /\ now + tick <= MaxTime
    /\ now' = now + tick
    /\ session_store' = ValidatedSession(session_store, token, now')
    /\ session_log' = Logged(token, now', Validates(session_store, token, now'))
    /\ UNCHANGED <<tokens_issued, session_id>>
    /\ UNCHANGED <<engineVars, rankerVars, helperVars, parVars, limitVars, cacheVars>>

\* the wrapper of require_valid_session: a session is created when the
\* Streamlit state has none, the session is validated, and a new one is
\* created when the validation fails
RequireValidSession(tick) ==
    /\ now + tick <= MaxTime
    /\ Len(tokens_issued) < MaxSessions
    /\ now' = now + tick
    /\ LET token == IF session_id = None THEN GenerateSessionToken ELSE session_id.token
           store == IF session_id = None
                    THEN CreatedSession(session_store, token, now')
                    ELSE session_store
           issued == IF session_id = None
                     THEN Append(tokens_issued, [token |-> token, time |-> now'])
                     ELSE tokens_issued
           valid == Validates(store, token, now')
           fresh == TokenNames[Len(issued) + 1]
       IN  /\ session_log' = Logged(token, now', valid)
           /\ IF valid
              THEN /\ session_store' = ValidatedSession(store, token, now')
                   /\ tokens_issued' = issued
                   /\ session_id' = [token |-> token]
              ELSE /\ session_store' = CreatedSession(ValidatedSession(store, token, now'),
                                                      fresh, now')
                   /\ tokens_issued' = Append(issued, [token |-> fresh, time |-> now'])
                   /\ session_id' = [token |-> fresh]
    /\ UNCHANGED <<engineVars, rankerVars, helperVars, parVars, limitVars, cacheVars>>

-----------------------------------------------------------------------------
(* Specifications *)

Next ==
    \/ \E p \in ExtraProducts : AddProduct(p)
    \/ \E b \in ExtraBoxes : AddBox(b)
    \/ \E q \in CallableRequests : CalculatePacking(q)
    \/ TryPackItems
    \/ PlaceItem
    \/ BuildResult
    \/ ReturnResults

Spec == Init /\ [][Next]_vars

\* a flat box a caller registers with add_box: 60 x 60 x 10 cm, 10 kg.  Its
\* outer volume is above that of No.1 and its inner volume below it.
FlatBoxes == { TransportBox("Flat", 600, 600, 100, 100) }

\* the engine with its recommendation: one call of calculate_packing over the
\* stock catalogs or with the flat box added, then get_packing_recommendation
NextRecommend ==
    \/ \E b \in FlatBoxes : AddBox(b)
    \/ \E q \in CallableRequests : pc = "idle" /\ CalculatePacking(q)
    \/ TryPackItems
    \/ PlaceItem
    \/ BuildResult
    \/ ReturnResults
    \/ GetPackingRecommendation

SpecRecommend == Init /\ [][NextRecommend]_vars

\* the engine called with the requests validate_quantities reports as invalid
NextInvalid ==
    \/ \E q \in CallableInvalidRequests : CalculatePacking(q)
    \/ TryPackItems
    \/ PlaceItem
    \/ BuildResult
    \/ ReturnResults

SpecInvalid == Init /\ [][NextInvalid]_vars

\* one call of calculate_packing over the stock catalogs, then the shipping
\* functions on the list it returned
NextShipping ==
    \/ \E q \in CallableRequests : pc = "idle" /\ CalculatePacking(q)
    \/ TryPackItems
    \/ PlaceItem
    \/ BuildResult
    \/ ReturnResults
    \/ CalculateShippingOptions
    \/ GetCheapestOption
    \/ \E opts \in AddOnSettings : GetEnhancedShippingOptions(opts)

SpecShipping == Init /\ [][NextShipping]_vars

\* _calculate_recommendation_scores applied to a list of options
InitScores ==
    /\ EngineIdle
    /\ shipping_options = NotReturned
    /\ cheapest_option = NotReturned
    /\ enhanced_options = NotReturned
    /\ options = <<>>
    /\ scored_options \in OptionLists
    /\ scored = FALSE
    /\ score_parts = <<>>
    /\ UtilIdle

NextScores == CalculateRecommendationScores

SpecScores == InitScores /\ [][NextScores]_vars

\* one call of calculate_packing with the entries of the request in either
\* order, over the stock catalog or with the product M added
NextOrder ==
    \/ \E p \in TieProducts : AddProduct(p)
    \/ \E q \in OrderedRequests : CalculatePacking(q)
    \/ TryPackItems
    \/ PlaceItem
    \/ BuildResult
    \/ ReturnResults

SpecOrder == Init /\ [][NextOrder]_vars

\* the helper functions, each applied once to its arguments
NextHelpers ==
    \/ \E carrier \in CarrierNames, opts \in OptionDicts :
          CalculateOptionCostsCall(carrier, opts)
    \/ \E box \in FitBoxes, product \in FitProducts : CalculateMaxFitCall(box, product)
    \/ \E box \in FitBoxes, product \in FitProducts, quantity \in 1..MaxGroup :
          GridAttempt(box, product, quantity)

SpecHelpers == Init /\ [][NextHelpers]_vars

\* one call of process_parallel and the threads of its pool
NextParallel ==
    \/ \E its \in ItemLists : ProcessParallel(its)
    \/ \E k \in 1..MaxItems : TaskFinishes(k)
    \/ \E k \in 1..MaxItems : CollectFuture(k)
    \/ ReturnParallelResults

SpecParallel == Init /\ [][NextParallel]_vars

\* a sequence of check_rate_limit calls at non-decreasing times
NextLimit ==
    \E client \in Clients, gap \in Gaps : CheckRateLimit(client[1], client[2], gap)

SpecLimit == Init /\ [][NextLimit]_vars

\* calls on one CacheManager, directly and through cached functions
NextCache ==
    \/ \E key \in CacheKeys, tick \in Ticks : CacheGet(key, tick)
    \/ \E key \in CacheKeys, ttl \in Ttls, tick \in Ticks : CacheSet(key, "value", ttl, tick)
    \/ \E key \in CacheKeys : CacheDelete(key)
    \/ \E tick \in Ticks : ClearExpired(tick)
    \/ \E key \in CacheKeys, ttl \in Ttls, tick \in Ticks : CachedFunction(key, ttl, tick)

SpecCache == Init /\ [][NextCache]_vars

\* sessions created, validated and required at non-decreasing times
NextSession ==
    \/ \E tick \in Ticks : CreateSession(tick)
    \/ \E token \in PresentedTokens, tick \in Ticks : ValidateSession(token, tick)
    \/ \E tick \in Ticks : RequireValidSession(tick)

SpecSession == Init /\ [][NextSession]_vars

-----------------------------------------------------------------------------
(* Vocabulary of the properties, stated on the values a PackingResult holds *)

\* the inner dimensions of a box: outer minus 2 cm per axis, not below 0
InnerW(b) == IF b.width  > 20 THEN b.width  - 20 ELSE 0
InnerD(b) == IF b.depth  > 20 THEN b.depth  - 20 ELSE 0
InnerH(b) == IF b.height > 20 THEN b.height - 20 ELSE 0

\* the length two intervals [a, a + la) and [b, b + lb) have in common
Common(a, la, b, lb) ==
    LET lo == IF a > b THEN a ELSE b
        hi == IF a + la < b + lb THEN a + la ELSE b + lb
    IN  IF hi > lo THEN hi - lo ELSE 0

\* the footprint area two placed items share
FootprintOverlap(p, q) ==
    Common(p.x, p.width, q.x, q.width) * Common(p.y, p.depth, q.y, q.depth)

\* the volume two placed items share
SharedVolume(p, q) ==
    FootprintOverlap(p, q) * Common(p.z, p.height, q.z, q.height)

\* q lies with its bottom face on the top face of p
RestsOn(q, p) == q.z = p.z + p.height /\ FootprintOverlap(p, q) > 0

ResultSet == { results[k] : k \in 1..Len(results) }

\* C1: no two distinct packed items of a returned result share a positive
\* volume; items that touch in a face, an edge or a corner are allowed
NoOverlap ==
    \A r \in ResultSet :
        \A i, j \in 1..Len(r.packed_items) :
            i # j => SharedVolume(r.packed_items[i], r.packed_items[j]) = 0

\* a result in which one item stands on the top face of another and a third
\* touches one of them sideways
NoOverlapWitness ==
    \E r \in ResultSet :
        \E i, j, k \in 1..Len(r.packed_items) :
            LET a == r.packed_items[i]
                b == r.packed_items[j]
                c == r.packed_items[k]
            IN  /\ RestsOn(b, a)
                /\ c.x = a.x + a.width
                /\ Common(a.y, a.depth, c.y, c.depth) > 0
                /\ Common(a.z, a.height, c.z, c.height) > 0

\* C2: every packed item of a returned result lies inside the inner
\* dimensions of the result's box
Containment ==
    \A r \in ResultSet :
        \A i \in 1..Len(r.packed_items) :
            LET p == r.packed_items[i]
            IN  /\ p.x >= 0 /\ p.y >= 0 /\ p.z >= 0
                /\ p.x + p.width  <= InnerW(r.box)
                /\ p.y + p.depth  <= InnerD(r.box)
                /\ p.z + p.height <= InnerH(r.box)

\* a result with an item away from the origin on each axis, while the same
\* request found no placement in another candidate box
ContainmentWitness ==
    /\ \E r \in ResultSet :
          /\ \E i \in 1..Len(r.packed_items) : r.packed_items[i].x > 0
          /\ \E i \in 1..Len(r.packed_items) : r.packed_items[i].y > 0
          /\ \E i \in 1..Len(r.packed_items) : r.packed_items[i].z > 0
    /\ \E k \in 1..Len(debug_log) : debug_log[k][2] = "Failed"

\* the number of packed items of a result that carry a size label
UnitsOfSize(r, size) ==
    Cardinality({ i \in 1..Len(r.packed_items) : r.packed_items[i].product.size = size })

\* C3: every returned result is feasible and holds exactly one packed item
\* per requested unit; a box whose attempt was reported as failed has no
\* result, so an attempt that cannot place an item leaves nothing behind
AllUnitsPlaced ==
    /\ \A r \in ResultSet :
          /\ r.is_feasible
          /\ \A k \in 1..Len(quantities) :
                UnitsOfSize(r, quantities[k][1])
                    = (IF quantities[k][2] > 0 THEN quantities[k][2] ELSE 0)
          /\ Len(r.packed_items) = Len(items)
    /\ \A k \in 1..Len(debug_log) :
          debug_log[k][2] = "Failed"
              => \A r \in ResultSet : r.box.number # debug_log[k][1]

\* a call for units of two sizes has returned a result, while the attempt for
\* another box passed the weight and volume checks and then met an item it
\* could not place
AllUnitsPlacedWitness ==
    /\ pc = "done"
    /\ \E r \in ResultSet :
          \E i, j \in 1..Len(r.packed_items) :
              r.packed_items[i].product.size # r.packed_items[j].product.size
    /\ \E k \in 1..Len(debug_log) :
          /\ debug_log[k][2] = "Failed"
          /\ \E b \in { suitable_boxes[n] : n \in 1..Len(suitable_boxes) } :
                /\ b.number = debug_log[k][1]
                /\ total_volume <= InnerW(b) * InnerD(b) * InnerH(b)
                /\ total_weight <= b.max_weight

\* the summed weight of the packed items of a result
PackedWeight(r) ==
    SumSeq([ i \in 1..Len(r.packed_items) |-> r.packed_items[i].product.weight ])

\* C4: the packed items of a returned result weigh at most box.max_weight in
\* all, and total_weight reports exactly that sum
WeightBound ==
    \A r \in ResultSet :
        /\ PackedWeight(r) <= r.box.max_weight
        /\ r.total_weight = PackedWeight(r)

\* a returned result for a load that is too heavy for some box of the catalog
WeightBoundWitness ==
    \E r \in ResultSet :
        /\ Len(r.packed_items) >= 2
        /\ \E k \in 1..Len(boxes) : boxes[k].max_weight < PackedWeight(r)

\* the footprint area of item i of a result that lies on top faces at its z
SupportedArea(r, i) ==
    LET p == r.packed_items[i]
        carries(j) == 100 * (IF r.packed_items[j].z + r.packed_items[j].height >= p.z
                             THEN r.packed_items[j].z + r.packed_items[j].height - p.z
                             ELSE p.z - r.packed_items[j].z - r.packed_items[j].height)
                        < 10
    IN  SumSeq([ j \in 1..Len(r.packed_items) |->
                   IF j # i /\ carries(j)
                   THEN FootprintOverlap(p, r.packed_items[j]) ELSE 0 ])

\* C5: in a returned result every packed item above the floor has at least
\* half of its footprint on the top faces of items that end at its z
Supported ==
    \A r \in ResultSet :
        \A i \in 1..Len(r.packed_items) :
            LET p == r.packed_items[i]
            IN  p.z > 0 => 2 * SupportedArea(r, i) >= p.width * p.depth

\* a returned result with an item above the floor that overhangs its support
SupportedWitness ==
    \E r \in ResultSet :
        \E i \in 1..Len(r.packed_items) :
            LET p == r.packed_items[i]
            IN  /\ p.z > 0
                /\ SupportedArea(r, i) < p.width * p.depth
                /\ 2 * SupportedArea(r, i) >= p.width * p.depth

\* the load on item i of a result: each item resting on it passes on its own
\* weight and the load it bears, in proportion to the part of its footprint
\* that lies on item i (an exact fraction of 0.1 kg)
RECURSIVE LoadOn(_, _)
RECURSIVE LoadFrom(_, _, _)
LoadOn(r, i) == LoadFrom(r, i, 1)
LoadFrom(r, i, j) ==
    IF j > Len(r.packed_items) THEN <<0, 1>>
    ELSE LET p == r.packed_items[i]
             q == r.packed_items[j]
             share == IF j # i /\ RestsOn(q, p)
                      THEN FracMul(FracAdd(<<q.product.weight, 1>>, LoadOn(r, j)),
                                   Frac(FootprintOverlap(p, q), q.width * q.depth))
                      ELSE <<0, 1>>
         IN  FracAdd(share, LoadFrom(r, i, j + 1))

\* C6: in a returned result no packed item bears more than 50 kg, the load
\* counting the items resting on it directly or through other items
LoadLimit ==
    \A r \in ResultSet :
        \A i \in 1..Len(r.packed_items) : ~FracGtInt(LoadOn(r, i), 500)

\* the inner volume of a box
InnerVol(b) == InnerW(b) * InnerD(b) * InnerH(b)

\* C7: the candidate list computed for a required volume and weight holds
\* exactly the catalog boxes with inner_volume >= volume and max_weight >=
\* weight, each once, in ascending order of box volume
SuitableExact ==
    pc # "idle" =>
        /\ \A k \in 1..Len(boxes) :
              (\E n \in 1..Len(suitable_boxes) : suitable_boxes[n] = boxes[k])
                  <=> (InnerVol(boxes[k]) >= total_volume
                         /\ boxes[k].max_weight >= total_weight)
        /\ \A n \in 1..Len(suitable_boxes) :
              \E k \in 1..Len(boxes) : boxes[k] = suitable_boxes[n]
        /\ \A m, n \in 1..Len(suitable_boxes) :
              m # n => suitable_boxes[m] # suitable_boxes[n]
        /\ \A n \in 1..(Len(suitable_boxes) - 1) :
              suitable_boxes[n].width * suitable_boxes[n].depth * suitable_boxes[n].height
                <= suitable_boxes[n + 1].width * suitable_boxes[n + 1].depth
                     * suitable_boxes[n + 1].height

\* a candidate list that leaves out a box for its weight limit alone and
\* lists two boxes in the reverse of their catalog order
SuitableExactWitness ==
    /\ pc # "idle"
    /\ \E k \in 1..Len(boxes) :
          InnerVol(boxes[k]) >= total_volume /\ boxes[k].max_weight < total_weight
    /\ \E m, n \in 1..Len(suitable_boxes) :
          \E k, l \in 1..Len(boxes) :
              /\ m < n /\ l < k
              /\ suitable_boxes[m] = boxes[k] /\ suitable_boxes[n] = boxes[l]

\* C8: when the requested weight exceeds every box's limit, or the requested
\* volume every box's inner volume, the candidate list is empty, no packing
\* attempt is run and the call returns the empty list
NoCandidateBox ==
    ( /\ pc # "idle"
      /\ \/ \A k \in 1..Len(boxes) : total_weight > boxes[k].max_weight
         \/ \A k \in 1..Len(boxes) : total_volume > InnerVol(boxes[k]) )
        => /\ suitable_boxes = <<>>
           /\ debug_log = <<>>
           /\ results = <<>>
           /\ pc \in {"boxes", "done"}

\* a call has returned for a load that is too large for every box while one
\* box could bear its weight
NoCandidateBoxWitness ==
    /\ pc = "done"
    /\ items # <<>>
    /\ \A k \in 1..Len(boxes) : total_volume > InnerVol(boxes[k])
    /\ \E k \in 1..Len(boxes) : total_weight <= boxes[k].max_weight
    /\ results = <<>>

\* C9: total_volume of a returned result is the sum of width * depth * height
\* of its packed items as oriented, equal to the requested volume, and
\* utilization_rate is that volume over the inner volume of the box (x 100)
VolumeAccounting ==
    \A r \in ResultSet :
        /\ r.total_volume =
              SumSeq([ i \in 1..Len(r.packed_items) |->
                         r.packed_items[i].width * r.packed_items[i].depth
                           * r.packed_items[i].height ])
        /\ r.total_volume = total_volume
        /\ r.utilization_rate.den > 0
        /\ Frac(r.utilization_rate.num, r.utilization_rate.den)
              = Frac(r.total_volume, InnerVol(r.box))

\* a returned result of three identical cubes of 30 cm: its utilisation is
\* 3 * 27000 cm3 over the inner volume
VolumeAccountingWitness ==
    \E r \in ResultSet :
        /\ Len(r.packed_items) = 3
        /\ \A i \in 1..3 :
              LET p == r.packed_items[i]
              IN  p.width = 300 /\ p.depth = 300 /\ p.height = 300
        /\ Frac(r.utilization_rate.num, r.utilization_rate.den)
              = Frac(3 * 27000000, InnerVol(r.box))

-----------------------------------------------------------------------------
(* Recommendation *)

\* packing_efficiency >= 60 % and utilization_rate >= 50 % of a result
Efficient(r) == 5 * r.packing_efficiency.num >= 3 * r.packing_efficiency.den
Utilized(r) == 2 * r.utilization_rate.num >= r.utilization_rate.den

\* the efficiency of r is at most that of q
EfficiencyAtMost(r, q) ==
    ~LessFrac(q.packing_efficiency.num, q.packing_efficiency.den,
              r.packing_efficiency.num, r.packing_efficiency.den)

\* the selection policy: None exactly for the empty list; otherwise the first
\* result with efficiency >= 60, else the first with utilisation >= 50, else a
\* result of maximum efficiency
PolicyFollowed ==
    LET n == Len(results)
        E == { i \in 1..n : Efficient(results[i]) }
        U == { i \in 1..n : Utilized(results[i]) }
    IN  /\ (recommendation = None) <=> (results = <<>>)
        /\ results # <<>> =>
             \E i \in 1..n :
                /\ recommendation = results[i]
                /\ E # {} => i \in E /\ \A j \in E : i <= j
                /\ E = {} /\ U # {} => i \in U /\ \A j \in U : i <= j
                /\ E = {} /\ U = {} => \A j \in 1..n : EfficiencyAtMost(results[j], results[i])

\* the list is in ascending-box-volume generation order
GenerationOrder ==
    \A i, j \in 1..Len(results) :
        i < j => BoxVolume(results[i].box) <= BoxVolume(results[j].box)

\* the list is in descending order of utilization_rate
UtilizationOrder ==
    \A i, j \in 1..Len(results) :
        i < j => ~LessFrac(results[i].utilization_rate.num, results[i].utilization_rate.den,
                           results[j].utilization_rate.num, results[j].utilization_rate.den)

\* C11 as stated: get_packing_recommendation follows the selection policy on
\* the list calculate_packing returned, and that list is in
\* ascending-box-volume generation order.
RecommendationInGenerationOrder ==
    pc = "done" /\ recommendation # NotCalled => PolicyFollowed /\ GenerationOrder

\* C11 as amended: get_packing_recommendation follows the selection policy on
\* the list calculate_packing returned, and that list is in descending order
\* of utilization_rate.
RecommendationPolicy ==
    pc = "done" /\ recommendation # NotCalled => PolicyFollowed /\ UtilizationOrder

\* a recommendation that is not the head of a list of several results, taken
\* by the efficiency threshold
RecommendationPolicyWitness ==
    /\ pc = "done"
    /\ recommendation # NotCalled
    /\ Len(results) >= 2
    /\ recommendation # results[1]
    /\ Efficient(recommendation)

\* the other outcomes: None, the utilisation threshold, the maximum efficiency
RecommendationNoneWitness ==
    pc = "done" /\ recommendation = None
RecommendationUtilizedWitness ==
    /\ pc = "done" /\ recommendation # NotCalled /\ results # <<>>
    /\ ~Efficient(recommendation) /\ Utilized(recommendation)
RecommendationMaxWitness ==
    /\ pc = "done" /\ recommendation # NotCalled /\ Len(results) >= 2
    /\ ~Efficient(recommendation) /\ ~Utilized(recommendation)
    /\ recommendation # results[1]

-----------------------------------------------------------------------------
(* Invalid input *)

\* a request with a negative quantity, a label no catalog entry has, or no
\* unit at all
InvalidInput(q) ==
    \/ \E k \in 1..Len(q) : q[k][2] < 0
    \/ \E k \in 1..Len(q) : \A n \in 1..Len(products) : products[n].size # q[k][1]
    \/ \A k \in 1..Len(q) : q[k][2] = 0

\* C12: a call with a negative quantity, an unknown size label or no unit is
\* rejected before the candidate boxes are filtered or any placement runs: it
\* leaves calculate_packing by a failure, with no candidate list, no attempt
\* and no PackingResult.
InvalidInputRejected ==
    pc # "idle" /\ InvalidInput(quantities) =>
        /\ pc = "raised"
        /\ suitable_boxes = <<>>
        /\ debug_log = <<>>
        /\ results = <<>>

-----------------------------------------------------------------------------
(* Candidate boxes are attempted independently *)

\* the bottom-left-fill placement of the items its[k..] in an empty box of
\* inner size bw x bd x bh, continued from the placement list packed and the
\* free positions positions; <<>> when an item finds no place
RECURSIVE PlaceFrom(_, _, _, _, _, _, _)
PlaceFrom(its, k, packed, positions, bw, bd, bh) ==
    IF k > Len(its) THEN packed
    ELSE LET product == its[k].product
             found == FindPlacement(packed, positions, product, bw, bd, bh)
         IN  IF found[1] = 0 THEN <<>>
             ELSE LET o == Orientations(product)[found[1]]
                      pos == positions[found[2]]
                  IN  PlaceFrom(its, k + 1,
                          Append(packed, PackedItem(product, pos[1], pos[2], pos[3],
                                                    o[1], o[2], o[3], o[4])),
                          AddNewPositions(Pop(positions, found[2]),
                                          pos[1], pos[2], pos[3], o[1], o[2], o[3]),
                          bw, bd, bh)

\* the placement of all requested items in box b alone
PlacedAlone(b) ==
    PlaceFrom(items, 1, <<>>, << <<0, 0, 0>> >>, InnerW(b), InnerD(b), InnerH(b))

IsCandidate(b) == \E n \in 1..Len(suitable_boxes) : suitable_boxes[n] = b

\* C13: when a call for at least one unit has returned, every candidate was
\* attempted; the list holds a result for box b exactly when b is a candidate
\* and the placement of all items in b alone succeeds, and the result holds
\* that placement, whatever happened to the candidates tried before b.
IndependentAttempts ==
    pc = "done" /\ items # <<>> =>
        /\ Len(debug_log) = Len(suitable_boxes)
        /\ \A k \in 1..Len(boxes) :
              \A alone \in { IF IsCandidate(boxes[k]) THEN PlacedAlone(boxes[k]) ELSE <<>> } :
                  IF alone = <<>>
                  THEN \A r \in ResultSet : r.box # boxes[k]
                  ELSE \E r \in ResultSet : r.box = boxes[k] /\ r.packed_items = alone

\* a call has returned where a candidate failed in the placement and a
\* candidate tried after it has a result
IndependentAttemptsWitness ==
    /\ pc = "done"
    /\ items # <<>>
    /\ \E m, n \in 1..Len(suitable_boxes) :
          /\ m < n
          /\ PlacedAlone(suitable_boxes[m]) = <<>>
          /\ \E r \in ResultSet : r.box = suitable_boxes[n]

-----------------------------------------------------------------------------
(* Carrier options *)

\* the applicability predicate: the thin-parcel services take boxes of at
\* most 3 cm height, the compact service its two box numbers
ThinServices == {"Nekopos", "Click Post"}
CompactBoxes == {"B-60", "B-80"}
Accepted(service, box) ==
    /\ service.service_name \in ThinServices => box.height <= 30
    /\ service.service_name = "Takkyubin Compact" => box.number \in CompactBoxes

\* the (carrier, service) pairs of the service table
ServicePairs ==
    UNION { { <<c, k>> : k \in 1..Len(InitializeServices[c].services) } :
            c \in 1..Len(InitializeServices) }

\* C14: the list get_enhanced_shipping_options returned holds exactly one
\* option for every (result, carrier, service) whose applicability predicate
\* accepts the box of the result and none for the others, and it is not empty
\* when there is a result.
OneOptionPerTriple ==
    enhanced_options.returned =>
        LET list == enhanced_options.value
        IN  /\ \A i \in 1..Len(results) : \A p \in ServicePairs :
                  LET service == InitializeServices[p[1]].services[p[2]]
                      found == { n \in 1..Len(list) :
                                   /\ list[n].packing_result = results[i]
                                   /\ list[n].service = service }
                  IN  Cardinality(found) = (IF Accepted(service, results[i].box) THEN 1 ELSE 0)
            /\ results # <<>> => list # <<>>

\* C17: in the list a ranker returned every option's savings is its cost less
\* the lowest cost of the list; the list of calculate_shipping_options is in
\* ascending order of rate, so its first option has savings 0, and that
\* option has the rate of the option get_cheapest_option returns.
SavingsAgainstCheapest ==
    /\ enhanced_options.returned =>
          LET list == enhanced_options.value
          IN  \A n \in 1..Len(list) :
                 \E m \in 1..Len(list) :
                    /\ \A j \in 1..Len(list) : list[m].total_cost <= list[j].total_cost
                    /\ list[n].savings = list[n].total_cost - list[m].total_cost
    /\ shipping_options.returned =>
          LET list == shipping_options.value
          IN  /\ \A n \in 1..Len(list) :
                    \E m \in 1..Len(list) :
                       /\ \A j \in 1..Len(list) :
                             list[m].shipping_rate.rate <= list[j].shipping_rate.rate
                       /\ list[n].savings
                            = list[n].shipping_rate.rate - list[m].shipping_rate.rate
                       /\ list[n].savings >= 0
              /\ \A n \in 1..(Len(list) - 1) :
                    list[n].shipping_rate.rate <= list[n + 1].shipping_rate.rate
              /\ list # <<>> => list[1].savings = 0
              /\ list # <<>> /\ cheapest_option.returned =>
                    /\ cheapest_option.value # None
                    /\ cheapest_option.value.shipping_rate.rate = list[1].shipping_rate.rate

\* both functions have returned for a list of several results: the options
\* of one box are followed by cheaper options of another box in the order
\* built, and the dearest option has positive savings
SavingsAgainstCheapestWitness ==
    /\ shipping_options.returned
    /\ cheapest_option.returned
    /\ LET list == shipping_options.value
       IN  /\ Len(list) >= 4
           /\ list[Len(list)].savings > 0
           /\ ShippingOptionsUnsorted(results) # list

-----------------------------------------------------------------------------
(* Recommendation scores *)

\* the total costs of the scored list, its lowest and its highest
ScoredCosts == { scored_options[k].total_cost : k \in 1..Len(scored_options) }
LowestCost == CHOOSE c \in ScoredCosts : \A d \in ScoredCosts : c <= d
HighestCost == CHOOSE c \in ScoredCosts : \A d \in ScoredCosts : c >= d

\* p = n / d for fractions that are not negative, in any form
FracIs(p, n, d) == ~LessFrac(p[1], p[2], n, d) /\ ~LessFrac(n, d, p[1], p[2])

EqualCostsWitness ==
    /\ scored
    /\ Len(scored_options) = 2
    /\ scored_options[1] # scored_options[2]
    /\ scored_options[1].total_cost = scored_options[2].total_cost

\* the quality sum of a service in tenths: 3 for tracking, 3 for insurance
\* and 1 for each listed feature
QualityTenths(service) ==
    (IF service.tracking THEN 3 ELSE 0) + (IF service.insurance THEN 3 ELSE 0)
        + Len(service.special_features)

\* C19: every recommendation_score is 0.4 * cost_score + 0.3 * speed_score
\* + 0.2 * min(quality, 1) + 0.1 * min(utilization_rate / 100, 1), where
\* quality is 0.3 for tracking plus 0.3 for insurance plus 0.1 for each
\* listed feature, and it lies between 0 and 1.
ScoreIsWeightedSum ==
    scored =>
        \A k \in 1..Len(scored_options) :
            LET score == scored_options[k].recommendation_score
                service == scored_options[k].service
                rate == scored_options[k].packing_result.utilization_rate
                quality == Frac(Min(QualityTenths(service), 10), 10)
                utilization == IF rate.num > rate.den THEN <<1, 1>>
                               ELSE Frac(rate.num, rate.den)
                sum == FracAdd(FracAdd(FracMulInt(score_parts[k].cost_score, 4),
                                       FracMulInt(score_parts[k].speed_score, 3)),
                               FracAdd(FracMulInt(quality, 2), utilization))
            IN  /\ FracIs(score, sum[1], 10 * sum[2])
                /\ score[1] >= 0
                /\ score[1] <= score[2]

\* a scored list with a service whose quality sum is above 1.0
ScoreIsWeightedSumWitness ==
    /\ scored
    /\ Len(scored_options) = 2
    /\ QualityTenths(scored_options[1].service) > 10
    /\ QualityTenths(scored_options[2].service) < 10
    /\ scored_options[1].recommendation_score # scored_options[2].recommendation_score

\* C20: the speed sub-score depends only on the delivery-time label of the
\* service: 1.0 for next-day, 0.8 for next-or-second-day and 0.6 for every
\* other label; a next-or-second-day service is not scored as next-day.
SpeedBuckets ==
    scored =>
        \A k \in 1..Len(scored_options) :
            LET delivery_time == scored_options[k].service.delivery_time
                speed_score == score_parts[k].speed_score
            IN  IF delivery_time = NextDay THEN speed_score = <<1, 1>>
                ELSE IF delivery_time = NextOrSecondDay THEN speed_score = <<4, 5>>
                ELSE speed_score = <<3, 5>>

-----------------------------------------------------------------------------
(* Default rate and add-on surcharges *)

\* the default rate of a carrier: 800 / 750 / 700
DefaultRateOf(carrier) ==
    IF carrier = "Yamato" THEN 800 ELSE IF carrier = "Sagawa" THEN 750
    ELSE IF carrier = "JapanPost" THEN 700 ELSE 800

\* C21: when the rate table has no entry for a (carrier, box) pair, the list
\* get_enhanced_shipping_options returns still has the option of every
\* service of that carrier that accepts the box, at the default rate of the
\* carrier.
DefaultRateFallback ==
    enhanced_options.returned =>
        \A i \in 1..Len(results) : \A p \in ServicePairs :
            LET service == InitializeServices[p[1]].services[p[2]]
                list == enhanced_options.value
            IN  /\ GetRate(service.carrier, results[i].box.number) = None
                /\ Accepted(service, results[i].box)
                => \E n \in 1..Len(list) :
                      /\ list[n].packing_result = results[i]
                      /\ list[n].service = service
                      /\ list[n].shipping_rate.rate = DefaultRateOf(service.carrier)
                      /\ list[n].total_cost >= DefaultRateOf(service.carrier)

\* the surcharge an entry of the options map adds for a carrier
Surcharge(carrier, entry) ==
    IF /\ entry[2]
       /\ entry[1] \in DOMAIN InitializeSpecialRates
       /\ carrier \in DOMAIN InitializeSpecialRates[entry[1]]
    THEN InitializeSpecialRates[entry[1]][carrier]
    ELSE 0

-----------------------------------------------------------------------------
(* Grid capacity *)

\* the six axis permutations of the native dimensions of a product
AxisPermutations(product) ==
    LET dims == <<product.width, product.depth, product.height>>
    IN  { <<dims[f[1]], dims[f[2]], dims[f[3]]>> :
            f \in { g \in [1..3 -> 1..3] : g[1] # g[2] /\ g[1] # g[3] /\ g[2] # g[3] } }

\* floor(inner_w / w) * floor(inner_d / d) * floor(inner_h / h)
GridCount(box, o) ==
    ((box.width - WallAllowance) \div o[1]) * ((box.depth - WallAllowance) \div o[2])
        * ((box.height - WallAllowance) \div o[3])

\* the capacity of the claim: the largest count over the six permutations
Capacity(box, product) ==
    CHOOSE c \in { GridCount(box, o) : o \in AxisPermutations(product) } :
        \A o \in AxisPermutations(product) : GridCount(box, o) <= c

MaxFitWitness ==
    /\ max_fit # NotCalled
    /\ \A k \in 1..2 : GridCount(max_fit.box, FitOrientations(max_fit.product)[k]) < max_fit.value

-----------------------------------------------------------------------------
(* Parallel processing *)

\* C23: process_parallel returns one entry per input item, in the order of
\* the items whatever the order in which the worker threads complete: entry i
\* is the result of func(items[i]), or None if that task raised, below and
\* above the threshold of 4 items alike.
ResultsInInputOrder ==
    /\ par_pc # "raised"
    /\ par_pc = "done" =>
          /\ Len(par_results) = Len(par_items)
          /\ \A i \in 1..Len(par_items) :
                par_results[i] = (IF par_items[i].raises THEN None ELSE Func(par_items[i]))

\* the entries of a list of 4 items for which func never raises, returned in
\* another order
ResultsInCompletionOrder ==
    /\ par_pc = "done"
    /\ Len(par_items) >= ParallelThreshold
    /\ \A i \in 1..Len(par_items) : ~par_items[i].raises
    /\ par_results[1] # Func(par_items[1])

-----------------------------------------------------------------------------
(* Order of the items *)

\* the place of a size label among the entries of the request
InputPosition(size) == CHOOSE k \in 1..Len(quantities) : quantities[k][1] = size

\* the units of one size in a list of items
UnitsOf(its, size) == Cardinality({ k \in 1..Len(its) : its[k].size = size })

\* C24: the packer takes the requested units in descending order of product
\* volume, units of equal volume in the order of the request; an item is
\* attempted only when all items before it are placed, and the packed_items of
\* every result are in non-increasing order of product volume
DescendingVolumeOrder ==
    pc \in {"boxes", "place", "done"} =>
        /\ \A k \in 1..Len(quantities) :
              UnitsOf(items, quantities[k][1]) = quantities[k][2]
        /\ \A i \in 1..Len(items) : \A j \in (i + 1)..Len(items) :
              \/ ProductVolume(items[i].product) > ProductVolume(items[j].product)
              \/ /\ ProductVolume(items[i].product) = ProductVolume(items[j].product)
                 /\ InputPosition(items[i].size) <= InputPosition(items[j].size)
        /\ pc = "place" =>
              /\ Len(packed_items) = item_idx - 1
              /\ \A k \in 1..Len(packed_items) : packed_items[k].product = items[k].product
        /\ \A r \in ResultSet :
              /\ Len(r.packed_items) = Len(items)
              /\ \A k \in 1..Len(items) : r.packed_items[k].product = items[k].product
              /\ \A i \in 1..Len(r.packed_items) : \A j \in (i + 1)..Len(r.packed_items) :
                    ProductVolume(r.packed_items[i].product)
                        >= ProductVolume(r.packed_items[j].product)

\* a returned result in which a unit of M precedes a unit of S_long of the
\* same volume because the request named M first
DescendingVolumeOrderWitness ==
    /\ pc = "done"
    /\ \E r \in ResultSet : \E i \in 1..Len(r.packed_items) :
          /\ i < Len(r.packed_items)
          /\ r.packed_items[i].product.size = "M"
          /\ r.packed_items[i + 1].product.size = "S_long"
    /\ \E k \in 1..Len(items) : ProductVolume(items[k].product) > ProductVolume(items[Len(items)].product)

\* the same with the request naming S_long first
TieInCatalogOrderWitness ==
    /\ pc = "done"
    /\ \E r \in ResultSet : \E i \in 1..Len(r.packed_items) :
          /\ i < Len(r.packed_items)
          /\ r.packed_items[i].product.size = "S_long"
          /\ r.packed_items[i + 1].product.size = "M"

-----------------------------------------------------------------------------
(* Orientations *)

\* the placement is one of the two orientations of its product about the
\* vertical axis, and its flag tells which
UprightOrientation(p) ==
    /\ p.height = p.product.height
    /\ \/ p.width = p.product.width /\ p.depth = p.product.depth
       \/ p.width = p.product.depth /\ p.depth = p.product.width
    /\ p.rotated <=> ~(p.width = p.product.width /\ p.depth = p.product.depth)

\* the step places an item
ItemPlaced == pc = "place" /\ Len(packed_items') = Len(packed_items) + 1

\* the item the step has placed
NewItem == packed_items'[Len(packed_items')]

\* the product in its native orientation is accepted at a free position
NativeAccepted(product) ==
    LET inner_dims == InnerDimensions(suitable_boxes[box_idx])
    IN  \E k \in 1..Len(free_positions) :
            Accepts(packed_items, <<product.width, product.depth, product.height>>,
                    free_positions[k], inner_dims[1], inner_dims[2], inner_dims[3],
                    product.weight)

\* C25: every packed item has the native height of its product and the
\* footprint (width, depth) or (depth, width); its rotated flag is true exactly
\* when the footprint is not the native one; and an item is placed in the
\* swapped orientation only when no free position accepts the native one
TwoOrientations ==
    /\ [](/\ \A k \in 1..Len(packed_items) : UprightOrientation(packed_items[k])
          /\ \A r \in ResultSet : \A k \in 1..Len(r.packed_items) :
                UprightOrientation(r.packed_items[k]))
    /\ [][ItemPlaced =>
            /\ NewItem.product = items[item_idx].product
            /\ NewItem.rotated => ~NativeAccepted(NewItem.product)]_vars

\* a returned result with an item in the native orientation and a later item
\* in the swapped one
TwoOrientationsWitness ==
    /\ pc = "done"
    /\ \E r \in ResultSet : \E i, k \in 1..Len(r.packed_items) :
          /\ i < k
          /\ ~r.packed_items[i].rotated
          /\ r.packed_items[k].rotated
-----------------------------------------------------------------------------
(* Frontier of free positions *)

\* p comes before q in the order by (z, y, x)
LowerBackLeft(p, q) ==
    \/ p[3] < q[3]
    \/ p[3] = q[3] /\ p[2] < q[2]
    \/ p[3] = q[3] /\ p[2] = q[2] /\ p[1] < q[1]

PointsOf(positions) == { positions[k] : k \in 1..Len(positions) }

Origin(p) == <<p.x, p.y, p.z>>

\* the three points a placement opens
Successors(p) ==
    { <<p.x + p.width, p.y, p.z>>, <<p.x, p.y + p.depth, p.z>>, <<p.x, p.y, p.z + p.height>> }

\* the free position with index k accepts the placement p
AcceptedAt(p, k) ==
    LET inner_dims == InnerDimensions(suitable_boxes[box_idx])
    IN  Accepts(packed_items, <<p.width, p.depth, p.height>>, free_positions[k],
                inner_dims[1], inner_dims[2], inner_dims[3], p.product.weight)

\* C26: an attempt starts with the origin as its only free position; while it
\* runs the free positions are in strictly ascending order by (z, y, x), hence
\* without duplicates; an item goes to the first free position that accepts
\* its orientation, that position leaves the list and the three successors
\* join it unless present; no two items have the same origin
FrontierDiscipline ==
    /\ [](/\ pc = "place" =>
                \A k \in 1..(Len(free_positions) - 1) :
                    LowerBackLeft(free_positions[k], free_positions[k + 1])
          /\ \A i, j \in 1..Len(packed_items) :
                i # j => Origin(packed_items[i]) # Origin(packed_items[j])
          /\ \A r \in ResultSet : \A i, j \in 1..Len(r.packed_items) :
                i # j => Origin(r.packed_items[i]) # Origin(r.packed_items[j]))
    /\ [][(pc = "boxes" /\ pc' = "place") =>
                free_positions' = << <<0, 0, 0>> >> /\ packed_items' = <<>>]_vars
    /\ [][ItemPlaced =>
            /\ \E k \in 1..Len(free_positions) :
                  /\ free_positions[k] = Origin(NewItem)
                  /\ AcceptedAt(NewItem, k)
                  /\ \A j \in 1..(k - 1) : ~AcceptedAt(NewItem, j)
            /\ PointsOf(free_positions')
                  = (PointsOf(free_positions) \ { Origin(NewItem) }) \cup Successors(NewItem)
            /\ Len(free_positions') = Cardinality(PointsOf(free_positions'))]_vars

\* an attempt in which a successor of the last placement was a free position
\* already, and in which an item lies at a point that was not the first of
\* the list
FrontierDisciplineWitness ==
    /\ pc = "place"
    /\ Len(packed_items) >= 2
    /\ Len(free_positions) < 1 + 2 * Len(packed_items)
    /\ \E k \in 2..Len(packed_items) :
          \E q \in PointsOf(free_positions) :
              LowerBackLeft(q, Origin(packed_items[k]))

-----------------------------------------------------------------------------
(* Rate limit *)

\* the accepted calls on the key of call i made before it and less than a
\* window before it
AcceptedBefore(i) ==
    { j \in 1..(i - 1) : /\ limit_log[j].key = limit_log[i].key
                         /\ limit_log[j].returned
                         /\ limit_log[i].time - limit_log[j].time < WindowSeconds }

\* the accepted calls on the key of call i from its time on and less than a
\* window after it
AcceptedFrom(i) ==
    { j \in 1..Len(limit_log) : /\ limit_log[j].key = limit_log[i].key
                                /\ limit_log[j].returned
                                /\ limit_log[j].time >= limit_log[i].time
                                /\ limit_log[j].time - limit_log[i].time < WindowSeconds }

\* C28: a call is accepted exactly when fewer than rate_limit_per_minute calls
\* on its key were accepted less than 60 seconds before it; so no window of 60
\* seconds holds more accepted calls on one key than the limit, rejected calls
\* and calls on other keys count for nothing, and the store holds the times of
\* accepted calls only
SlidingWindowLimit ==
    /\ \A i \in 1..Len(limit_log) :
          /\ limit_log[i].returned <=> Cardinality(AcceptedBefore(i)) < RateLimitPerMinute
          /\ Cardinality(AcceptedFrom(i)) <= RateLimitPerMinute
    /\ \A k \in 1..Len(rate_limit_store) : \A n \in 1..Len(rate_limit_store[k][2]) :
          \E i \in 1..Len(limit_log) :
              /\ limit_log[i].key = rate_limit_store[k][1]
              /\ limit_log[i].time = rate_limit_store[k][2][n]
              /\ limit_log[i].returned

\* a key is at its limit and rejected, another key is accepted at the same
\* time, and the first key is accepted again when its oldest accepted call is
\* exactly 60 seconds old, the rejected call in between notwithstanding
SlidingWindowLimitWitness ==
    \E i, j, k \in 1..Len(limit_log) :
        /\ i < j /\ j < k
        /\ ~limit_log[i].returned
        /\ limit_log[j].key # limit_log[i].key
        /\ limit_log[j].time = limit_log[i].time
        /\ limit_log[j].returned
        /\ limit_log[k].key = limit_log[i].key
        /\ limit_log[k].returned
        /\ limit_log[k].time - limit_log[i].time < WindowSeconds
        /\ \E h \in 1..(i - 1) :
              /\ limit_log[h].key = limit_log[i].key
              /\ limit_log[h].returned
              /\ limit_log[k].time - limit_log[h].time = WindowSeconds

-----------------------------------------------------------------------------
(* Cache *)

\* the entry of the key is in the cache and past its expiry at the time of
\* the step
ExpiredAtCall(key) ==
    key \in Keys(cache) /\ now' > Lookup(cache, key).expires_at

\* C29: get does not return an entry more than ttl seconds after the set that
\* stored it, and a cached function computes its value anew then; the cache
\* never holds more than max_size entries, and cache and access_times have the
\* same keys
ExpiredNotReturned ==
    /\ [](Len(cache) <= MaxSize /\ Keys(cache) = Keys(access_times))
    /\ [][(cache_log'.op = "get" /\ ExpiredAtCall(cache_log'.key))
              => cache_log'.returned = None]_vars
    /\ [][(cache_log'.op = "cached_function" /\ ExpiredAtCall(cache_log'.key))
              => cache_log'.computed]_vars

\* the part of C29 on the size and the keys alone
SizeAndKeys ==
    /\ Len(cache) <= MaxSize
    /\ Len(cache) = Cardinality(Keys(cache))
    /\ Len(access_times) = Cardinality(Keys(access_times))
    /\ Keys(cache) = Keys(access_times)

\* get has returned an entry after its expiry
ExpiredEntryReturned ==
    /\ cache_log # <<>>
    /\ cache_log.op = "get"
    /\ cache_log.returned # None
    /\ cache_log.time > cache_log.returned.expires_at

-----------------------------------------------------------------------------
(* Sessions *)

\* the time at which create_session issued the token
IssuedAt(token) ==
    tokens_issued'[CHOOSE k \in 1..Len(tokens_issued') : tokens_issued'[k].token = token].time

\* the step has made a validate_session call
Validated == session_log'.last # None /\ session_log' # session_log

\* C30: validate_session returns True only for a token create_session issued
\* at most session_timeout seconds before; a successful validation sets
\* last_access and leaves created_at at the time of issue; a token validated
\* after its timeout leaves the store, and after create_session the store
\* holds no token past its timeout; a token that was rejected once is rejected
\* in every later call
SessionLifetime ==
    /\ [][(Validated /\ session_log'.last.returned) =>
              LET token == session_log'.last.token
              IN  /\ \E k \in 1..Len(tokens_issued') : tokens_issued'[k].token = token
                  /\ now' - IssuedAt(token) <= SessionTimeout
                  /\ token \in Keys(session_store')
                  /\ Lookup(session_store', token).created_at = IssuedAt(token)
                  /\ Lookup(session_store', token).last_access = now']_vars
    /\ [][(Validated /\ ~session_log'.last.returned) =>
              session_log'.last.token \notin Keys(session_store')]_vars
    /\ [][Len(tokens_issued') > Len(tokens_issued) =>
              \A token \in Keys(session_store') : now' - IssuedAt(token) <= SessionTimeout]_vars
    /\ [][(Validated /\ session_log'.last.token \in session_log.rejected) =>
              ~session_log'.last.returned]_vars

\* a token is rejected after its timeout and has left the store, which holds
\* a younger session
SessionLifetimeWitness ==
    /\ session_log.last # None
    /\ ~session_log.last.returned
    /\ \E k \in 1..Len(tokens_issued) :
          /\ tokens_issued[k].token = session_log.last.token
          /\ session_log.last.time - tokens_issued[k].time > SessionTimeout
    /\ session_log.last.token \notin Keys(session_store)
    /\ session_store # <<>>

====
